---- MODULE Spec2Model ----
(***************************************************************************)
(* Todo Collection Manager: the zustand todo store (todoStore.ts), the     *)
(* REST routes it calls (/api/todos and /api/todos/[id]) and the IndexedDB *)
(* adapter (dbManager) behind the routes.                                  *)
(*                                                                         *)
(* Representation.  A JavaScript string is a sequence of one-character     *)
(* strings.  An optional field (description?, dueDate?) is a set holding   *)
(* at most one value.  A Date is its time value, an integer.  A JSON body  *)
(* or a Partial<Todo> is a function whose domain is the set of keys that   *)
(* are present.  An id is a small integer; the object store returns        *)
(* records in ascending key order.                                         *)
(***************************************************************************)
EXTENDS Integers, Sequences, FiniteSets, TLC

\* ---------------------------------------------------------------- bounds
MaxId == 2
MaxClock == 1
MaxIdsLen == 2
MaxCalls == 3
MaxListLen == 2

Ids == 1..MaxId
Times == 0..MaxClock

\* --------------------------------------------------------- JS primitives
\* String.prototype.toLowerCase over the alphabet the model uses
toLowerChar(c) ==
  IF c = "A" THEN "a" ELSE IF c = "B" THEN "b" ELSE c

toLowerCase(s) == [i \in 1..Len(s) |-> toLowerChar(s[i])]

\* String.prototype.includes: sub occurs in s as a contiguous substring
strIncludes(s, sub) ==
  \E i \in 0..(Len(s) - Len(sub)) : SubSeq(s, i + 1, i + Len(sub)) = sub

RECURSIVE trimStart(_)
trimStart(s) ==
  IF s # <<>> /\ Head(s) = " " THEN trimStart(Tail(s)) ELSE s

RECURSIVE trimEnd(_)
trimEnd(s) ==
  IF s # <<>> /\ s[Len(s)] = " " THEN trimEnd(SubSeq(s, 1, Len(s) - 1)) ELSE s

\* String.prototype.trim
trim(s) == trimEnd(trimStart(s))

\* JSON values that are not strings: null and a number.  Neither is a
\* sequence of one-character strings.
Null == <<"null">>
Num == <<"123">>
NonStrings == {Null, Num}

\* typeof v === 'string'
isString(v) == v \notin NonStrings

\* !v for a string, null or a non-zero number
falsy(v) == v = <<>> \/ v = Null

\* Array.prototype.includes
arrIncludes(arr, x) == \E i \in 1..Len(arr) : arr[i] = x

\* Array.prototype.filter is SelectSeq.  Array.prototype.find is the first
\* element of the filtered array, as a set (empty if there is none).
firstOf(arr) == IF arr = <<>> THEN {} ELSE {Head(arr)}

\* { ...a, ...b }
spread(a, b) ==
  [k \in (DOMAIN a) \cup (DOMAIN b) |-> IF k \in DOMAIN b THEN b[k] ELSE a[k]]

\* the ids of a list of todos
idsOf(list) == {list[i].id : i \in 1..Len(list)}

\* ----------------------------------------------------------------- dates
\* createdAt: new Date(todo.createdAt), dueDate: todo.dueDate ? new Date(..)
\* : undefined.  A stored or serialized Date is truthy whatever its time
\* value, so the time value is kept and an absent dueDate stays absent.
reviveDates(todo) ==
  [todo EXCEPT !.createdAt = todo.createdAt,
               !.updatedAt = todo.updatedAt,
               !.dueDate = {d : d \in todo.dueDate}]

\* stable insertion of t into a list already sorted by createdAt descending
RECURSIVE insertByCreatedAtDesc(_, _)
insertByCreatedAtDesc(sorted, t) ==
  IF sorted = <<>> THEN <<t>>
  ELSE IF Head(sorted).createdAt >= t.createdAt
       THEN <<Head(sorted)>> \o insertByCreatedAtDesc(Tail(sorted), t)
       ELSE <<t>> \o sorted

\* arr.sort((a, b) => b.createdAt.getTime() - a.createdAt.getTime());
\* Array.prototype.sort is stable
RECURSIVE sortByCreatedAtDesc(_)
sortByCreatedAtDesc(arr) ==
  IF arr = <<>> THEN <<>>
  ELSE insertByCreatedAtDesc(sortByCreatedAtDesc(SubSeq(arr, 1, Len(arr) - 1)),
                             arr[Len(arr)])

\* ------------------------------------------------- IndexedDB adapter
\* The object store "todos" (keyPath id) is a function from the stored keys
\* to their records.  Each adapter call runs in its own transaction; fault
\* says that the transaction's request fails (request.onerror).

\* store.getAll(): every record, in ascending key order
RECURSIVE recordsInKeyOrder(_, _)
recordsInKeyOrder(store, keys) ==
  IF keys = {} THEN <<>>
  ELSE LET k == CHOOSE x \in keys : \A y \in keys : x <= y
       IN  <<store[k]>> \o recordsInKeyOrder(store, keys \ {k})

dbGetAllTodos(store) ==
  LET all == recordsInKeyOrder(store, DOMAIN store)
  IN  [i \in 1..Len(all) |-> reviveDates(all[i])]

\* store.add(todo): rejects when the key is already present
dbAddTodo(store, todo, fault) ==
  IF fault \/ todo.id \in DOMAIN store
  THEN [ok |-> FALSE, db |-> store]
  ELSE [ok |-> TRUE,
        db |-> [k \in (DOMAIN store) \cup {todo.id} |->
                  IF k = todo.id THEN todo ELSE store[k]]]

\* variant of dbUpdateTodo: a record is replaced only if its key is present
dbUpdateTodo_replaceOnly(store, todo, fault) ==
  IF fault \/ todo.id \notin DOMAIN store
  THEN [ok |-> FALSE, db |-> store]
  ELSE [ok |-> TRUE,
        db |-> [k \in DOMAIN store |-> IF k = todo.id THEN todo ELSE store[k]]]

\* store.put(todo): inserts or replaces the record under todo.id
dbUpdateTodo(store, todo, fault) ==
  IF fault
  THEN [ok |-> FALSE, db |-> store]
  ELSE [ok |-> TRUE,
        db |-> [k \in (DOMAIN store) \cup {todo.id} |->
                  IF k = todo.id THEN todo ELSE store[k]]]

\* variant of dbDeleteTodo: deleting a key that is not present fails
dbDeleteTodo_strict(store, id, fault) ==
  IF fault \/ id \notin DOMAIN store
  THEN [ok |-> FALSE, db |-> store]
  ELSE [ok |-> TRUE, db |-> [k \in (DOMAIN store) \ {id} |-> store[k]]]

\* store.delete(id): succeeds whether or not the key is present
dbDeleteTodo(store, id, fault) ==
  IF fault
  THEN [ok |-> FALSE, db |-> store]
  ELSE [ok |-> TRUE, db |-> [k \in (DOMAIN store) \ {id} |-> store[k]]]

\* variant of dbGetTodosByFilter: the index lookup stands for the whole filter
dbGetTodosByFilter_indexOnly(store, f, fault) ==
  LET all == recordsInKeyOrder(store, DOMAIN store)
      inIndex(todo) == todo.priority = f.priority
      isCompleted(todo) == todo.completed = f.completed
      found == IF "priority" \in DOMAIN f /\ f.priority # ""
               THEN SelectSeq(all, inIndex)
               ELSE IF "completed" \in DOMAIN f THEN SelectSeq(all, isCompleted)
               ELSE all
  IN  IF fault
      THEN [ok |-> FALSE, todos |-> <<>>]
      ELSE [ok |-> TRUE, todos |-> [i \in 1..Len(found) |-> reviveDates(found[i])]]

\* getTodosByFilter(filter): if (filter.priority) the records the index
\* "priority" holds under that key, else store.getAll(); then, if
\* filter.completed !== undefined, those whose completed is filter.completed.
\* The index returns the records of one key in ascending primary-key order;
\* every priority stored here is a string, so every record is in the index.
\* The empty string is falsy.
dbGetTodosByFilter(store, f, fault) ==
  LET all == recordsInKeyOrder(store, DOMAIN store)
      inIndex(todo) == todo.priority = f.priority
      isCompleted(todo) == todo.completed = f.completed
      found == IF "priority" \in DOMAIN f /\ f.priority # ""
               THEN SelectSeq(all, inIndex)
               ELSE all
      revived == [i \in 1..Len(found) |-> reviveDates(found[i])]
  IN  IF fault
      THEN [ok |-> FALSE, todos |-> <<>>]
      ELSE [ok |-> TRUE,
            todos |-> IF "completed" \in DOMAIN f
                      THEN SelectSeq(revived, isCompleted)
                      ELSE revived]

\* ------------------------------------------------------- /api/todos
\* A route maps the object store and a request to the object store it
\* leaves and the response: [db, status, body].  faults is the set of ids
\* whose write transaction fails; readFault says that getAllTodos fails.
\* A route that calls new Date() is handed the time it reads, which is no
\* earlier than the time read before it.

todoMatchesSearch(todo, searchLower) ==
  \/ strIncludes(toLowerCase(todo.title), searchLower)
  \/ \E d \in todo.description : strIncludes(toLowerCase(d), searchLower)
  \/ \E i \in 1..Len(todo.tags) : strIncludes(toLowerCase(todo.tags[i]), searchLower)

\* GET /api/todos?status=&priority=&tags=&search=
\* query holds the parameters that are present; tags is the value of the
\* tags parameter after split(',')
GET_todos(store, query, readFault) ==
  IF readFault
  THEN [db |-> store, status |-> 500, body |-> [error |-> "Failed to fetch todos"]]
  ELSE
    LET todos == dbGetAllTodos(store)
        has(k) == k \in DOMAIN query
        isActive(t) == ~t.completed
        isCompleted(t) == t.completed
        byStatus ==
          IF has("status") /\ query.status = "active" THEN SelectSeq(todos, isActive)
          ELSE IF has("status") /\ query.status = "completed"
               THEN SelectSeq(todos, isCompleted)
               ELSE todos
        hasPriority(t) == t.priority = query.priority
        byPriority ==
          IF has("priority") /\ query.priority # "" /\ query.priority # "all"
          THEN SelectSeq(byStatus, hasPriority) ELSE byStatus
        nonEmpty(tag) == tag # <<>>
        tags == IF has("tags") THEN SelectSeq(query.tags, nonEmpty) ELSE <<>>
        hasSomeTag(t) == \E i \in 1..Len(tags) : arrIncludes(t.tags, tags[i])
        byTags ==
          IF has("tags") /\ Len(tags) > 0
          THEN SelectSeq(byPriority, hasSomeTag) ELSE byPriority
        matches(t) == todoMatchesSearch(t, toLowerCase(query.search))
        bySearch ==
          IF has("search") /\ query.search # <<>>
          THEN SelectSeq(byTags, matches) ELSE byTags
        filteredTodos == sortByCreatedAtDesc(bySearch)
    IN  [db |-> store, status |-> 200,
         body |-> [todos |-> filteredTodos,
                   total |-> Len(todos),
                   filtered |-> Len(filteredTodos)]]

\* tags.filter(tag => typeof tag === 'string' && tag.trim())
sanitizeTags(tags) ==
  LET keep(tag) == isString(tag) /\ trim(tag) # <<>>
  IN  SelectSeq(tags, keep)

\* variant of postTitleInvalid: the type of the title is not tested
postTitleInvalid_untyped(body) ==
  \/ "title" \notin DOMAIN body
  \/ falsy(body.title)
  \/ Len(trim(body.title)) = 0

\* POST: !title || typeof title !== 'string' || title.trim().length === 0
postTitleInvalid(body) ==
  \/ "title" \notin DOMAIN body
  \/ falsy(body.title)
  \/ ~isString(body.title)
  \/ Len(trim(body.title)) = 0

\* POST /api/todos.  newId is the value of Date.now().toString() +
\* Math.random().toString(36).substr(2, 9); t1 and t2 are the two readings
\* of the clock taken for createdAt and updatedAt.
POST_todos(store, body, newId, t1, t2, faults) ==
  LET has(k) == k \in DOMAIN body
  IN
  IF postTitleInvalid(body)
  THEN [db |-> store, status |-> 400,
        body |-> [error |-> "Title is required and must be a non-empty string"]]
  ELSE
    LET description ==
          IF has("description") /\ trim(body.description) # <<>>
          THEN {trim(body.description)} ELSE {}
        newTodo ==
          [id |-> newId,
           title |-> trim(body.title),
           description |-> description,
           completed |-> FALSE,
           priority |-> IF has("priority") THEN body.priority ELSE "medium",
           dueDate |-> IF has("dueDate") THEN {body.dueDate} ELSE {},
           tags |-> IF has("tags") THEN sanitizeTags(body.tags) ELSE <<>>,
           createdAt |-> t1,
           updatedAt |-> t2]
        added == dbAddTodo(store, newTodo, newId \in faults)
    IN  IF added.ok
        THEN [db |-> added.db, status |-> 201, body |-> newTodo]
        ELSE [db |-> store, status |-> 500,
              body |-> [error |-> "Failed to create todo"]]

\* the loop of PUT /api/todos over ids[from..]: each id with a record is
\* merged with updates and written; the first failing write throws
RECURSIVE bulkUpdateLoop(_, _, _, _, _, _, _)
bulkUpdateLoop(store, todos, ids, updates, now, faults, updatedTodos) ==
  IF ids = <<>>
  THEN [db |-> store, threw |-> FALSE, updated |-> updatedTodos]
  ELSE
    LET id == Head(ids)
        hasId(t) == t.id = id
        found == firstOf(SelectSeq(todos, hasId))
    IN  IF found = {}
        THEN bulkUpdateLoop(store, todos, Tail(ids), updates, now, faults,
                            updatedTodos)
        ELSE
          LET todo == CHOOSE t \in found : TRUE
              updatedTodo == spread(spread(todo, updates), [updatedAt |-> now])
              put == dbUpdateTodo(store, updatedTodo, id \in faults)
          IN  IF put.ok
              THEN bulkUpdateLoop(put.db, todos, Tail(ids), updates, now,
                                  faults, Append(updatedTodos, updatedTodo))
              ELSE [db |-> store, threw |-> TRUE, updated |-> updatedTodos]

\* PUT /api/todos {ids, updates}
PUT_todos(store, body, now, readFault, faults) ==
  IF "ids" \notin DOMAIN body \/ Len(body.ids) = 0
  THEN [db |-> store, status |-> 400, body |-> [error |-> "IDs array is required"]]
  ELSE IF readFault
  THEN [db |-> store, status |-> 500, body |-> [error |-> "Failed to update todos"]]
  ELSE
    LET loop == bulkUpdateLoop(store, dbGetAllTodos(store), body.ids,
                               body.updates, now, faults, <<>>)
    IN  IF loop.threw
        THEN [db |-> loop.db, status |-> 500,
              body |-> [error |-> "Failed to update todos"]]
        ELSE [db |-> loop.db, status |-> 200,
              body |-> [updated |-> loop.updated, count |-> Len(loop.updated)]]

\* variant of bulkDeleteLoop: the first failing delete ends the loop
RECURSIVE bulkDeleteLoop_stops(_, _, _, _)
bulkDeleteLoop_stops(store, ids, faults, deletedIds) ==
  IF ids = <<>>
  THEN [db |-> store, deleted |-> deletedIds]
  ELSE
    LET del == dbDeleteTodo(store, Head(ids), Head(ids) \in faults)
    IN  IF del.ok
        THEN bulkDeleteLoop_stops(del.db, Tail(ids), faults,
                                  Append(deletedIds, Head(ids)))
        ELSE [db |-> store, deleted |-> deletedIds]

\* the loop of DELETE /api/todos: every id is attempted, a failing delete
\* is caught and logged
RECURSIVE bulkDeleteLoop(_, _, _, _)
bulkDeleteLoop(store, ids, faults, deletedIds) ==
  IF ids = <<>>
  THEN [db |-> store, deleted |-> deletedIds]
  ELSE
    LET del == dbDeleteTodo(store, Head(ids), Head(ids) \in faults)
    IN  IF del.ok
        THEN bulkDeleteLoop(del.db, Tail(ids), faults, Append(deletedIds, Head(ids)))
        ELSE bulkDeleteLoop(store, Tail(ids), faults, deletedIds)

\* DELETE /api/todos {ids}
DELETE_todos(store, body, faults) ==
  IF "ids" \notin DOMAIN body \/ Len(body.ids) = 0
  THEN [db |-> store, status |-> 400, body |-> [error |-> "IDs array is required"]]
  ELSE
    LET loop == bulkDeleteLoop(store, body.ids, faults, <<>>)
    IN  [db |-> loop.db, status |-> 200,
         body |-> [deleted |-> loop.deleted, count |-> Len(loop.deleted)]]

\* -------------------------------------------------- /api/todos/[id]
\* the updates object of PUT /api/todos/[id] after "Remove undefined values"
putUpdates(body) ==
  LET keys == DOMAIN body
  IN  [k \in keys |->
         IF k = "title" THEN trim(body.title)
         ELSE IF k = "description" THEN {trim(body.description)}
         ELSE IF k = "dueDate" THEN {body.dueDate}
         ELSE IF k = "tags" THEN sanitizeTags(body.tags)
         ELSE body[k]]

\* PUT: body.title !== undefined && (typeof body.title !== 'string' ||
\* body.title.trim().length === 0)
putTitleInvalid(body) ==
  /\ "title" \in DOMAIN body
  /\ ~isString(body.title) \/ Len(trim(body.title)) = 0

\* GET /api/todos/[id]
GET_todos_id(store, id, readFault) ==
  IF readFault
  THEN [db |-> store, status |-> 500, body |-> [error |-> "Failed to fetch todo"]]
  ELSE
    LET hasId(t) == t.id = id
        found == firstOf(SelectSeq(dbGetAllTodos(store), hasId))
    IN  IF found = {}
        THEN [db |-> store, status |-> 404, body |-> [error |-> "Todo not found"]]
        ELSE [db |-> store, status |-> 200, body |-> CHOOSE t \in found : TRUE]

\* PUT /api/todos/[id]
PUT_todos_id(store, id, body, now, readFault, faults) ==
  IF putTitleInvalid(body)
  THEN [db |-> store, status |-> 400,
        body |-> [error |-> "Title must be a non-empty string"]]
  ELSE IF readFault
  THEN [db |-> store, status |-> 500, body |-> [error |-> "Failed to update todo"]]
  ELSE
    LET hasId(t) == t.id = id
        existing == firstOf(SelectSeq(dbGetAllTodos(store), hasId))
    IN  IF existing = {}
        THEN [db |-> store, status |-> 404, body |-> [error |-> "Todo not found"]]
        ELSE
          LET existingTodo == CHOOSE t \in existing : TRUE
              updatedTodo == spread(spread(existingTodo, putUpdates(body)),
                                    [updatedAt |-> now])
              put == dbUpdateTodo(store, updatedTodo, updatedTodo.id \in faults)
          IN  IF put.ok
              THEN [db |-> put.db, status |-> 200, body |-> updatedTodo]
              ELSE [db |-> store, status |-> 500,
                    body |-> [error |-> "Failed to update todo"]]

\* DELETE /api/todos/[id]
DELETE_todos_id(store, id, readFault, faults) ==
  IF readFault
  THEN [db |-> store, status |-> 500, body |-> [error |-> "Failed to delete todo"]]
  ELSE
    LET hasId(t) == t.id = id
        existing == firstOf(SelectSeq(dbGetAllTodos(store), hasId))
    IN  IF existing = {}
        THEN [db |-> store, status |-> 404, body |-> [error |-> "Todo not found"]]
        ELSE
          LET del == dbDeleteTodo(store, id, id \in faults)
          IN  IF del.ok
              THEN [db |-> del.db, status |-> 200,
                    body |-> [message |-> "Todo deleted successfully"]]
              ELSE [db |-> store, status |-> 500,
                    body |-> [error |-> "Failed to delete todo"]]

\* variant of PATCH_todos_id: a todo that is not stored is created from the body
PATCH_todos_id_upsert(store, id, body, now, readFault, faults) ==
  IF readFault
  THEN [db |-> store, status |-> 500, body |-> [error |-> "Failed to patch todo"]]
  ELSE
    LET hasId(t) == t.id = id
        existing == firstOf(SelectSeq(dbGetAllTodos(store), hasId))
        existingTodo ==
          IF existing = {}
          THEN [id |-> id, title |-> <<"a">>, description |-> {},
                completed |-> FALSE, priority |-> "medium", dueDate |-> {},
                tags |-> <<>>, createdAt |-> now, updatedAt |-> now]
          ELSE CHOOSE t \in existing : TRUE
        updatedTodo == spread(spread(existingTodo, body), [updatedAt |-> now])
        put == dbUpdateTodo(store, updatedTodo, updatedTodo.id \in faults)
    IN  IF put.ok
        THEN [db |-> put.db, status |-> 200, body |-> updatedTodo]
        ELSE [db |-> store, status |-> 500,
              body |-> [error |-> "Failed to patch todo"]]

\* PATCH /api/todos/[id]: the body is merged as it is
PATCH_todos_id(store, id, body, now, readFault, faults) ==
  IF readFault
  THEN [db |-> store, status |-> 500, body |-> [error |-> "Failed to patch todo"]]
  ELSE
    LET hasId(t) == t.id = id
        existing == firstOf(SelectSeq(dbGetAllTodos(store), hasId))
    IN  IF existing = {}
        THEN [db |-> store, status |-> 404, body |-> [error |-> "Todo not found"]]
        ELSE
          LET existingTodo == CHOOSE t \in existing : TRUE
              updatedTodo == spread(spread(existingTodo, body), [updatedAt |-> now])
              put == dbUpdateTodo(store, updatedTodo, updatedTodo.id \in faults)
          IN  IF put.ok
              THEN [db |-> put.db, status |-> 200, body |-> updatedTodo]
              ELSE [db |-> store, status |-> 500,
                    body |-> [error |-> "Failed to patch todo"]]

\* ------------------------------------------------------- api helpers
\* response.ok; a rejected fetch never yields a response
responseOk(resp) == ~resp.rejected /\ resp.status >= 200 /\ resp.status <= 299

\* Each helper maps the outcome of its fetch to what its promise settles to:
\* [threw, value].
api_getTodos(resp) ==
  IF ~responseOk(resp) THEN [threw |-> TRUE, value |-> <<>>]
  ELSE [threw |-> FALSE,
        value |-> [i \in 1..Len(resp.body.todos) |-> reviveDates(resp.body.todos[i])]]

api_createTodo(resp) ==
  IF ~responseOk(resp) THEN [threw |-> TRUE, value |-> <<>>]
  ELSE [threw |-> FALSE, value |-> reviveDates(resp.body)]

api_updateTodo(resp) ==
  IF ~responseOk(resp) THEN [threw |-> TRUE, value |-> <<>>]
  ELSE [threw |-> FALSE, value |-> reviveDates(resp.body)]

api_deleteTodo(resp) ==
  IF ~responseOk(resp) THEN [threw |-> TRUE, value |-> <<>>]
  ELSE [threw |-> FALSE, value |-> <<>>]

api_bulkUpdate(resp) ==
  IF ~responseOk(resp) THEN [threw |-> TRUE, value |-> <<>>]
  ELSE [threw |-> FALSE,
        value |-> [i \in 1..Len(resp.body.updated) |-> reviveDates(resp.body.updated[i])]]

api_bulkDelete(resp) ==
  IF ~responseOk(resp) THEN [threw |-> TRUE, value |-> <<>>]
  ELSE [threw |-> FALSE, value |-> <<>>]

\* ------------------------------------------------------------- state
VARIABLES
  todos,        \* useTodoStore: Todo[]
  filter,       \* useTodoStore: TodoFilter
  loading,      \* useTodoStore: boolean
  error,        \* useTodoStore: string | null, as a set of at most one string
  editingTodo,  \* useTodoStore: Todo | null, as a set of at most one todo
  db,           \* the IndexedDB object store "todos"
  clock,        \* the time new Date() reads
  calls,        \* per slot, the invocation of an async store action in flight
  loaded,       \* some loadTodos has succeeded
  last,         \* the store invocation that returned last: its arguments and
                \* the response if it was a success, the todos at its entry (entry)
                \* and the todos and editingTodo just before its last set()
  ncalls,       \* the number of store invocations made so far
  view,         \* what getFilteredTodos() returned, if read since the filter changed
  stats,        \* what getStats() returned, if read since the clock ticked
  exchange,     \* the last call made directly on a route, the adapter or the
                \* UI store: its arguments, the state before it and the answer
  previous,     \* the call made before that one
  nrequests,    \* the number of such calls so far
  returned,     \* the store invocation that returned before last, if no
                \* invocation has started since
  ui,           \* useUIStore: the state object of the UI store
  handlers      \* per request in flight on the server, the route handler's
                \* position and what it has read

storeVars == <<todos, filter, loading, error, editingTodo>>
outerVars == <<exchange, previous, nrequests, returned, ui, handlers>>
vars == <<todos, filter, loading, error, editingTodo, db, clock, calls, loaded,
          last, ncalls, view, stats, exchange, previous, nrequests, returned, ui,
          handlers>>

\* no request has been answered directly
noExchange == [route |-> "none"]

Slots == {"p", "q"}

\* the slot of a caller that awaits each invocation before the next
Main == "p"

Idle == [pc |-> "idle"]

AllIdle == \A s \in Slots : calls[s].pc = "idle"

emptyFilter == [status |-> {}, priority |-> {}, tags |-> {}, search |-> {}]

\* the value of get() / the state argument of a set() callback
storeState ==
  [todos |-> todos, filter |-> filter, loading |-> loading, error |-> error,
   editingTodo |-> editingTodo]

\* set(partial): a shallow merge into the store state
setState(partial) ==
  /\ todos' = IF "todos" \in DOMAIN partial THEN partial.todos ELSE todos
  /\ filter' = IF "filter" \in DOMAIN partial THEN partial.filter ELSE filter
  /\ loading' = IF "loading" \in DOMAIN partial THEN partial.loading ELSE loading
  /\ error' = IF "error" \in DOMAIN partial THEN partial.error ELSE error
  /\ editingTodo' = IF "editingTodo" \in DOMAIN partial
                    THEN partial.editingTodo ELSE editingTodo

\* what the last record keeps of the store state before a set()
beforeSet == [todos |-> todos, editingTodo |-> editingTodo]

\* no invocation has returned since the last one started
noResponse == [rejected |-> TRUE, status |-> 0, body |-> <<>>]

noCall ==
  [op |-> "none", via |-> "none", arg |-> <<>>, ok |-> TRUE, value |-> <<>>,
   requested |-> FALSE, rejects |-> FALSE, resp |-> noResponse,
   entry |-> <<>>, before |-> <<>>]

\* set({ loading: true, error: null }) followed by the fetch of the helper
startCall(s, op, via, arg, req) ==
  /\ calls[s].pc = "idle"
  /\ ncalls < MaxCalls
  /\ ncalls' = ncalls + 1
  /\ setState([loading |-> TRUE, error |-> {}])
  /\ calls' = [calls EXCEPT ![s] =
                 [pc |-> "fetching", op |-> op, via |-> via, arg |-> arg,
                  req |-> req, entry |-> todos]]
  /\ last' = noCall
  /\ UNCHANGED <<db, clock, loaded, view, stats>>

\* the invocation in slot s returns: partial is what its last set() merges
finishCall(s, partial, result, rejects) ==
  /\ setState(partial)
  /\ last' = [op |-> calls[s].op, via |-> calls[s].via,
              arg |-> IF result.threw THEN <<>> ELSE calls[s].arg,
              ok |-> ~result.threw, value |-> result.value,
              requested |-> TRUE, rejects |-> rejects,
              resp |-> IF result.threw THEN noResponse ELSE calls[s].resp,
              entry |-> calls[s].entry, before |-> beforeSet]
  /\ calls' = [calls EXCEPT ![s] = Idle]
  /\ ncalls' = ncalls

\* an invocation that returns without fetching and without calling set()
returnAtOnce(op, arg) ==
  /\ ncalls < MaxCalls
  /\ ncalls' = ncalls + 1
  /\ last' = [op |-> op, via |-> op, arg |-> arg, ok |-> TRUE, value |-> <<>>,
              requested |-> FALSE, rejects |-> FALSE, resp |-> noResponse,
              entry |-> todos, before |-> beforeSet]
  /\ UNCHANGED <<todos, filter, loading, error, editingTodo, db, clock, calls,
                 loaded, view, stats>>

\* ------------------------------------------------------------ UI store
\* useUIStore's initial state; null is the empty set
uiInitial ==
  [isAddTodoModalOpen |-> FALSE,
   isEditTodoModalOpen |-> FALSE,
   editingTodoId |-> {},
   isDeleteConfirmModalOpen |-> FALSE,
   deletingTodoId |-> {},
   isFilterDrawerOpen |-> FALSE,
   isMobileMenuOpen |-> FALSE,
   theme |-> "system",
   isLoading |-> FALSE,
   loadingMessage |-> <<>>,
   selectedTodoIds |-> <<>>,
   isBulkMode |-> FALSE]

\* Each action of the UI store is set(partial) or set(state => partial): it
\* is given as the state after it, a function of the state before it.
openAddTodoModal(state) == spread(state, [isAddTodoModalOpen |-> TRUE])


openEditTodoModal(state, todoId) ==
  spread(state, [isEditTodoModalOpen |-> TRUE, editingTodoId |-> {todoId}])

closeEditTodoModal(state) ==
  spread(state, [isEditTodoModalOpen |-> FALSE, editingTodoId |-> {}])

openDeleteConfirmModal(state, todoId) ==
  spread(state, [isDeleteConfirmModalOpen |-> TRUE, deletingTodoId |-> {todoId}])


toggleFilterDrawer(state) ==
  spread(state, [isFilterDrawerOpen |-> ~state.isFilterDrawerOpen])


toggleMobileMenu(state) ==
  spread(state, [isMobileMenuOpen |-> ~state.isMobileMenuOpen])


setTheme(state, theme) == spread(state, [theme |-> theme])

setLoading(state, isLoading, message) ==
  spread(state, [isLoading |-> isLoading, loadingMessage |-> message])

toggleTodoSelection(state, todoId) ==
  LET isSelected == arrIncludes(state.selectedTodoIds, todoId)
      isOther(id) == id # todoId
  IN  spread(state,
             [selectedTodoIds |->
                IF isSelected
                THEN SelectSeq(state.selectedTodoIds, isOther)
                ELSE Append(state.selectedTodoIds, todoId)])

selectAllTodos(state, todoIds) == spread(state, [selectedTodoIds |-> todoIds])

clearSelection(state) ==
  spread(state, [selectedTodoIds |-> <<>>, isBulkMode |-> FALSE])

\* variant of toggleBulkMode: the selection is kept when bulk mode is left
toggleBulkMode_keepsSelection(state) ==
  spread(state, [isBulkMode |-> ~state.isBulkMode])

toggleBulkMode(state) ==
  spread(state,
         [isBulkMode |-> ~state.isBulkMode,
          selectedTodoIds |-> IF state.isBulkMode THEN <<>>
                              ELSE state.selectedTodoIds])

\* TodoList: handleExitBulkMode = clearSelection(); toggleBulkMode();
handleExitBulkMode(state) == toggleBulkMode(clearSelection(state))

\* ------------------------------------------------- requests on the server
\* two requests may be in a route handler at a time
HandlerSlots == {"a", "b"}

noHandlers == [h \in HandlerSlots |-> [pc |-> "idle"]]

\* ------------------------------------------------------------ inputs
Blank == <<" ">>

\* the todoData handed to addTodo
Drafts ==
  { [title |-> <<" ", "a">>, priority |-> "medium", tags |-> <<>>, completed |-> FALSE],
    [title |-> Blank, priority |-> "medium", tags |-> <<>>, completed |-> FALSE] }

\* the updates handed to updateTodo
Patches ==
  { [completed |-> TRUE], [title |-> Blank] }

RECURSIVE SeqsUpTo(_, _)
SeqsUpTo(S, n) ==
  IF n = 0 THEN {<<>>}
  ELSE LET shorter == SeqsUpTo(S, n - 1)
       IN  shorter \cup {Append(q, x) : q \in shorter, x \in S}

isInjective(q) == \A i, j \in 1..Len(q) : q[i] = q[j] => i = j

\* the ids arrays handed to the bulk actions
IdArrays == {q \in SeqsUpTo(Ids, MaxIdsLen) : isInjective(q)}

\* the object stores a session can start from
recordZero ==
  [id |-> 1, title |-> <<"a">>, description |-> {}, completed |-> TRUE,
   priority |-> "medium", dueDate |-> {}, tags |-> <<>>,
   createdAt |-> 0, updatedAt |-> 0]

InitialStores == { [k \in {1} |-> recordZero] }

\* ------------------------------------------------- todo store actions
\* Each async action is two steps of the store around one await: the
\* synchronous prefix up to the fetch, and the continuation that runs when
\* the helper's promise settles.  The continuation is an operator giving the
\* partial state its set() merges and whether the action's promise rejects.

\* variant of loadTodos_settled: the catch branch also blanks the list
loadTodos_settledBlanks(state, result) ==
  IF ~result.threw
  THEN [set |-> [todos |-> result.value, loading |-> FALSE], rejects |-> FALSE]
  ELSE [set |-> [todos |-> <<>>, error |-> {"Failed to load todos"},
                 loading |-> FALSE],
        rejects |-> FALSE]

\* loadTodos, after the await
loadTodos_settled(state, result) ==
  IF ~result.threw
  THEN [set |-> [todos |-> result.value, loading |-> FALSE], rejects |-> FALSE]
  ELSE [set |-> [error |-> {"Failed to load todos"}, loading |-> FALSE],
        rejects |-> FALSE]

\* variant of addTodo_settled: the new todo is appended
addTodo_settledAppends(state, result) ==
  IF ~result.threw
  THEN [set |-> [todos |-> Append(state.todos, result.value), loading |-> FALSE],
        rejects |-> FALSE]
  ELSE [set |-> [error |-> {"Failed to add todo"}, loading |-> FALSE],
        rejects |-> FALSE]

\* variant of addTodo_settled: the catch branch leaves loading as it is
addTodo_settledStaysLoading(state, result) ==
  IF ~result.threw
  THEN [set |-> [todos |-> <<result.value>> \o state.todos, loading |-> FALSE],
        rejects |-> FALSE]
  ELSE [set |-> [error |-> {"Failed to add todo"}], rejects |-> FALSE]

\* addTodo, after the await
addTodo_settled(state, result) ==
  IF ~result.threw
  THEN [set |-> [todos |-> <<result.value>> \o state.todos, loading |-> FALSE],
        rejects |-> FALSE]
  ELSE [set |-> [error |-> {"Failed to add todo"}, loading |-> FALSE],
        rejects |-> FALSE]

\* variant of updateTodo_settled: editingTodo is left as it is
updateTodo_settledKeepsEditing(state, id, result) ==
  IF ~result.threw
  THEN [set |-> [todos |-> [i \in 1..Len(state.todos) |->
                              IF state.todos[i].id = id THEN result.value
                              ELSE state.todos[i]],
                 loading |-> FALSE],
        rejects |-> FALSE]
  ELSE [set |-> [error |-> {"Failed to update todo"}, loading |-> FALSE],
        rejects |-> FALSE]

\* variant of updateTodo_settled: an entry updated later than the response's
\* record is kept
updateTodo_settledNewestWins(state, id, result) ==
  IF ~result.threw
  THEN [set |-> [todos |-> [i \in 1..Len(state.todos) |->
                              IF /\ state.todos[i].id = id
                                 /\ state.todos[i].updatedAt <= result.value.updatedAt
                              THEN result.value
                              ELSE state.todos[i]],
                 loading |-> FALSE,
                 editingTodo |-> {}],
        rejects |-> FALSE]
  ELSE [set |-> [error |-> {"Failed to update todo"}, loading |-> FALSE],
        rejects |-> FALSE]

\* updateTodo, after the await
updateTodo_settled(state, id, result) ==
  IF ~result.threw
  THEN [set |-> [todos |-> [i \in 1..Len(state.todos) |->
                              IF state.todos[i].id = id THEN result.value
                              ELSE state.todos[i]],
                 loading |-> FALSE,
                 editingTodo |-> {}],
        rejects |-> FALSE]
  ELSE [set |-> [error |-> {"Failed to update todo"}, loading |-> FALSE],
        rejects |-> FALSE]

\* variant of deleteTodo_settled: the first entry is removed, whatever its id
deleteTodo_settledDropsFirst(state, id, result) ==
  IF ~result.threw
  THEN [set |-> [todos |-> IF state.todos = <<>> THEN <<>> ELSE Tail(state.todos),
                 loading |-> FALSE],
        rejects |-> FALSE]
  ELSE [set |-> [error |-> {"Failed to delete todo"}, loading |-> FALSE],
        rejects |-> FALSE]

\* deleteTodo, after the await
deleteTodo_settled(state, id, result) ==
  IF ~result.threw
  THEN LET keep(todo) == todo.id # id
       IN  [set |-> [todos |-> SelectSeq(state.todos, keep), loading |-> FALSE],
            rejects |-> FALSE]
  ELSE [set |-> [error |-> {"Failed to delete todo"}, loading |-> FALSE],
        rejects |-> FALSE]

\* deleteTodos, after the await
deleteTodos_settled(state, ids, result) ==
  IF ~result.threw
  THEN LET keep(todo) == ~arrIncludes(ids, todo.id)
       IN  [set |-> [todos |-> SelectSeq(state.todos, keep), loading |-> FALSE],
            rejects |-> FALSE]
  ELSE [set |-> [error |-> {"Failed to delete todos"}, loading |-> FALSE],
        rejects |-> FALSE]

\* variant of toggleTodos_firstTodo: the todo of the first id of ids that is
\* in the list
toggleTodos_firstTodoByIds(list, ids) ==
  LET hits == {k \in 1..Len(ids) : ids[k] \in idsOf(list)}
      k == CHOOSE x \in hits : \A y \in hits : x <= y
      hasId(t) == t.id = ids[k]
  IN  IF hits = {} THEN {} ELSE firstOf(SelectSeq(list, hasId))

\* toggleTodos: todos.find(t => ids.includes(t.id))
toggleTodos_firstTodo(list, ids) ==
  LET listed(t) == arrIncludes(ids, t.id)
  IN  firstOf(SelectSeq(list, listed))

\* toggleTodos, after the await; now is what new Date() reads
toggleTodos_settled(state, ids, newCompletedState, now, result) ==
  IF ~result.threw
  THEN [set |-> [todos |-> [i \in 1..Len(state.todos) |->
                              IF arrIncludes(ids, state.todos[i].id)
                              THEN spread(state.todos[i],
                                          [completed |-> newCompletedState,
                                           updatedAt |-> now])
                              ELSE state.todos[i]],
                 loading |-> FALSE],
        rejects |-> FALSE]
  ELSE [set |-> [error |-> {"Failed to toggle todos"}, loading |-> FALSE],
        rejects |-> FALSE]

loadTodos(s) ==
  startCall(s, "loadTodos", "loadTodos", <<>>, [route |-> "GET_todos", query |-> <<>>])

addTodo(s, todoData) ==
  startCall(s, "addTodo", "addTodo", [todoData |-> todoData],
            [route |-> "POST_todos", body |-> todoData])

updateTodo(s, id, updates, via) ==
  startCall(s, "updateTodo", via, [id |-> id, updates |-> updates],
            [route |-> "PUT_todos_id", id |-> id, body |-> updates])

\* variant of deleteTodo: the entry is removed before the request is answered
deleteTodo_optimistic(s, id) ==
  LET keep(todo) == todo.id # id
  IN  /\ calls[s].pc = "idle"
      /\ ncalls < MaxCalls
      /\ ncalls' = ncalls + 1
      /\ setState([todos |-> SelectSeq(todos, keep), loading |-> TRUE, error |-> {}])
      /\ calls' = [calls EXCEPT ![s] =
                     [pc |-> "fetching", op |-> "deleteTodo", via |-> "deleteTodo",
                      arg |-> [id |-> id],
                      req |-> [route |-> "DELETE_todos_id", id |-> id],
                      entry |-> todos]]
      /\ last' = noCall
      /\ UNCHANGED <<db, clock, loaded, view, stats>>

deleteTodo(s, id) ==
  startCall(s, "deleteTodo", "deleteTodo", [id |-> id],
            [route |-> "DELETE_todos_id", id |-> id])

deleteTodos(s, ids) ==
  startCall(s, "deleteTodos", "deleteTodos", [ids |-> ids],
            [route |-> "DELETE_todos", body |-> [ids |-> ids]])

toggleTodo(s, id) ==
  LET hasId(t) == t.id = id
      todo == firstOf(SelectSeq(todos, hasId))
  IN  IF todo # {}
      THEN updateTodo(s, id, [completed |-> ~(CHOOSE t \in todo : TRUE).completed],
                      "toggleTodo")
      ELSE calls[s].pc = "idle" /\ returnAtOnce("toggleTodo", [id |-> id])

\* toggleTodos from set({ loading: true, error: null }) to the fetch
toggleTodos_request(s, ids, newCompletedState) ==
  startCall(s, "toggleTodos", "toggleTodos",
            [ids |-> ids, newCompletedState |-> newCompletedState],
            [route |-> "PUT_todos",
             body |-> [ids |-> ids, updates |-> [completed |-> newCompletedState]]])

\* variant of toggleTodos: loading and error are set before the list is searched
toggleTodos_eager(s, ids) ==
  LET firstTodo == toggleTodos_firstTodo(todos, ids)
  IN  IF firstTodo = {}
      THEN /\ calls[s].pc = "idle"
           /\ ncalls < MaxCalls
           /\ ncalls' = ncalls + 1
           /\ setState([loading |-> TRUE, error |-> {}])
           /\ last' = [noCall EXCEPT !.op = "toggleTodos", !.via = "toggleTodos",
                                     !.arg = [ids |-> ids], !.entry = todos,
                                     !.before = beforeSet]
           /\ UNCHANGED <<db, clock, calls, loaded, view, stats>>
      ELSE toggleTodos_request(s, ids, ~(CHOOSE t \in firstTodo : TRUE).completed)

toggleTodos(s, ids) ==
  LET firstTodo == toggleTodos_firstTodo(todos, ids)
  IN  IF firstTodo = {}
      THEN calls[s].pc = "idle" /\ returnAtOnce("toggleTodos", [ids |-> ids])
      ELSE toggleTodos_request(s, ids, ~(CHOOSE t \in firstTodo : TRUE).completed)

\* the continuation of the invocation in slot s
settle(s) ==
  /\ calls[s].pc = "responded"
  /\ LET c == calls[s]
         result ==
           CASE c.op = "loadTodos" -> api_getTodos(c.resp)
             [] c.op = "addTodo" -> api_createTodo(c.resp)
             [] c.op = "updateTodo" -> api_updateTodo(c.resp)
             [] c.op = "deleteTodo" -> api_deleteTodo(c.resp)
             [] c.op = "deleteTodos" -> api_bulkDelete(c.resp)
             [] c.op = "toggleTodos" -> api_bulkUpdate(c.resp)
         outcome ==
           CASE c.op = "loadTodos" -> loadTodos_settled(storeState, result)
             [] c.op = "addTodo" -> addTodo_settled(storeState, result)
             [] c.op = "updateTodo" -> updateTodo_settled(storeState, c.arg.id, result)
             [] c.op = "deleteTodo" -> deleteTodo_settled(storeState, c.arg.id, result)
             [] c.op = "deleteTodos" -> deleteTodos_settled(storeState, c.arg.ids, result)
             [] c.op = "toggleTodos" ->
                  toggleTodos_settled(storeState, c.arg.ids,
                                      c.arg.newCompletedState, clock', result)
     IN  /\ clock' \in (IF c.op = "toggleTodos" /\ ~result.threw
                        THEN clock..MaxClock ELSE {clock})
         /\ finishCall(s, outcome.set, result, outcome.rejects)
         /\ loaded' = (loaded \/ (c.op = "loadTodos" /\ ~result.threw))
  /\ UNCHANGED <<db, view, stats>>

setEditingTodo(todo) ==
  /\ ncalls < MaxCalls
  /\ ncalls' = ncalls + 1
  /\ setState([editingTodo |-> todo])
  /\ last' = [noCall EXCEPT !.op = "setEditingTodo", !.via = "setEditingTodo",
                            !.arg = [todo |-> todo], !.entry = todos,
                            !.before = beforeSet]
  /\ UNCHANGED <<db, clock, calls, loaded, view, stats>>


\* ------------------------------------------- filters and derived views
\* setFilter: filter: { ...state.filter, ...newFilter }
setFilter(newFilter) ==
  /\ setState([filter |-> spread(filter, newFilter)])
  /\ view' = {}
  /\ UNCHANGED <<db, clock, calls, loaded, last, ncalls, stats>>

clearFilter ==
  /\ setState([filter |-> emptyFilter])
  /\ view' = {}
  /\ UNCHANGED <<db, clock, calls, loaded, last, ncalls, stats>>

\* getFilteredTodos: "Filter by status"
filterByStatus(list, f) ==
  LET isActive(todo) == ~todo.completed
      isCompleted(todo) == todo.completed
  IN  IF f.status = {"active"} THEN SelectSeq(list, isActive)
      ELSE IF f.status = {"completed"} THEN SelectSeq(list, isCompleted)
      ELSE list

\* getFilteredTodos: "Filter by priority"
filterByPriority(list, f) ==
  LET hasPriority(todo) == {todo.priority} = f.priority
  IN  IF f.priority # {} THEN SelectSeq(list, hasPriority) ELSE list

\* variant of filterByTags: the todo must carry every tag of the filter
filterByTags_every(list, f) ==
  LET hasEveryTag(todo) ==
        \E tags \in f.tags : \A i \in 1..Len(tags) : arrIncludes(todo.tags, tags[i])
  IN  IF \E tags \in f.tags : Len(tags) > 0
      THEN SelectSeq(list, hasEveryTag) ELSE list

\* getFilteredTodos: "Filter by tags"
filterByTags(list, f) ==
  LET hasSomeTag(todo) ==
        \E tags \in f.tags : \E i \in 1..Len(tags) : arrIncludes(todo.tags, tags[i])
  IN  IF \E tags \in f.tags : Len(tags) > 0
      THEN SelectSeq(list, hasSomeTag) ELSE list

\* getFilteredTodos: "Filter by search"
filterBySearch(list, f) ==
  LET matches(todo) ==
        \E search \in f.search : todoMatchesSearch(todo, toLowerCase(search))
  IN  IF \E search \in f.search : search # <<>>
      THEN SelectSeq(list, matches) ELSE list

\* getFilteredTodos(), as a function of the store state
getFilteredTodos(state) ==
  LET f == state.filter
  IN  sortByCreatedAtDesc(
        filterBySearch(filterByTags(filterByPriority(filterByStatus(state.todos, f), f), f), f))

\* variant of getStats: a completed todo past its dueDate counts as overdue
getStats_overdueCompleted(state, now) ==
  LET n(p(_)) == Len(SelectSeq(state.todos, p))
      isCompleted(todo) == todo.completed
      isActive(todo) == ~todo.completed
      isOverdue(todo) == \E dueDate \in todo.dueDate : dueDate < now
  IN  [total |-> Len(state.todos),
       completed |-> n(isCompleted),
       active |-> n(isActive),
       overdue |-> n(isOverdue)]

\* getStats(), as a function of the store state and of what new Date() reads
getStats(state, now) ==
  LET n(p(_)) == Len(SelectSeq(state.todos, p))
      isCompleted(todo) == todo.completed
      isActive(todo) == ~todo.completed
      isOverdue(todo) ==
        ~todo.completed /\ \E dueDate \in todo.dueDate : dueDate < now
  IN  [total |-> Len(state.todos),
       completed |-> n(isCompleted),
       active |-> n(isActive),
       overdue |-> n(isOverdue)]

\* a caller reads getFilteredTodos()
readFilteredTodos ==
  /\ view' = {getFilteredTodos(storeState)}
  /\ UNCHANGED <<todos, filter, loading, error, editingTodo, db, clock, calls,
                 loaded, last, ncalls, stats>>

\* a caller reads getStats()
readStats ==
  /\ stats' = {getStats(storeState, clock)}
  /\ UNCHANGED <<todos, filter, loading, error, editingTodo, db, clock, calls,
                 loaded, last, ncalls, view>>

\* ----------------------------------------------------- the server side
\* the fetch of slot s is answered by its route
respond(s, r) ==
  /\ db' = r.db
  /\ calls' = [calls EXCEPT ![s] =
                 spread(calls[s],
                        [pc |-> "responded",
                         resp |-> [rejected |-> FALSE, status |-> r.status,
                                   body |-> r.body]])]
  /\ UNCHANGED <<todos, filter, loading, error, editingTodo, loaded, last,
                 ncalls, view, stats>>

serve(s) ==
  /\ calls[s].pc = "fetching"
  /\ LET req == calls[s].req
     IN  CASE req.route = "GET_todos" ->
                \E readFault \in BOOLEAN :
                  /\ respond(s, GET_todos(db, req.query, readFault))
                  /\ clock' = clock
           [] req.route = "POST_todos" ->
                \E newId \in Ids, addFault \in BOOLEAN, t1 \in clock..MaxClock :
                  \E t2 \in t1..MaxClock :
                    /\ respond(s, POST_todos(db, req.body, newId, t1, t2,
                                             IF addFault THEN {newId} ELSE {}))
                    /\ clock' = t2
           [] req.route = "PUT_todos" ->
                \E readFault \in BOOLEAN, faults \in SUBSET Ids,
                   now \in clock..MaxClock :
                  /\ readFault => faults = {}
                  /\ respond(s, PUT_todos(db, req.body, now, readFault, faults))
                  /\ clock' = now
           [] req.route = "DELETE_todos" ->
                \E faults \in SUBSET Ids :
                  /\ respond(s, DELETE_todos(db, req.body, faults))
                  /\ clock' = clock
           [] req.route = "PUT_todos_id" ->
                \E readFault \in BOOLEAN, putFault \in BOOLEAN, now \in clock..MaxClock :
                  /\ readFault => ~putFault
                  /\ respond(s, PUT_todos_id(db, req.id, req.body, now, readFault,
                                             IF putFault THEN {req.id} ELSE {}))
                  /\ clock' = now
           [] req.route = "DELETE_todos_id" ->
                \E readFault \in BOOLEAN, deleteFault \in BOOLEAN :
                  /\ readFault => ~deleteFault
                  /\ respond(s, DELETE_todos_id(db, req.id, readFault,
                                                IF deleteFault THEN {req.id} ELSE {}))
                  /\ clock' = clock

\* the fetch of slot s rejects: the request never reached a route
fetchRejects(s) ==
  /\ calls[s].pc = "fetching"
  /\ calls' = [calls EXCEPT ![s] =
                 spread(calls[s],
                        [pc |-> "responded",
                         resp |-> noResponse])]
  /\ UNCHANGED <<todos, filter, loading, error, editingTodo, db, clock, loaded,
                 last, ncalls, view, stats>>

\* time passes between two reads of getStats()
Tick ==
  /\ clock < MaxClock
  /\ clock' = clock + 1
  /\ stats' = {}
  /\ UNCHANGED <<todos, filter, loading, error, editingTodo, db, calls, loaded,
                 last, ncalls, view>>

\* ------------------------------------------------------ specification
Init ==
  /\ todos = <<>>
  /\ filter = emptyFilter
  /\ loading = FALSE
  /\ error = {}
  /\ editingTodo = {}
  /\ db \in InitialStores
  /\ clock = 0
  /\ calls = [s \in Slots |-> Idle]
  /\ loaded = FALSE
  /\ last = noCall
  /\ ncalls = 0
  /\ view = {}
  /\ stats = {}
  /\ exchange = noExchange
  /\ previous = noExchange
  /\ nrequests = 0
  /\ returned = noCall
  /\ ui = uiInitial
  /\ handlers = noHandlers

\* the store's callers invoke one async action at a time
Next ==
  \/ \E s \in {Main} : AllIdle /\ loadTodos(s) /\ UNCHANGED outerVars
  \/ \E s \in {Main}, d \in Drafts : AllIdle /\ addTodo(s, d) /\ UNCHANGED outerVars
  \/ \E s \in {Main}, id \in Ids, u \in Patches :
       AllIdle /\ updateTodo(s, id, u, "updateTodo") /\ UNCHANGED outerVars
  \/ \E s \in {Main}, id \in Ids : AllIdle /\ deleteTodo(s, id) /\ UNCHANGED outerVars
  \/ \E s \in {Main}, ids \in IdArrays : AllIdle /\ deleteTodos(s, ids)
       /\ UNCHANGED outerVars
  \/ \E s \in {Main}, id \in Ids : AllIdle /\ toggleTodo(s, id) /\ UNCHANGED outerVars
  \/ \E s \in {Main}, ids \in IdArrays : AllIdle /\ toggleTodos(s, ids)
       /\ UNCHANGED outerVars
  \/ \E t \in {{}} \cup {{todos[i]} : i \in 1..Len(todos)} : setEditingTodo(t)
       /\ UNCHANGED outerVars
  \/ \E s \in Slots : serve(s) /\ UNCHANGED outerVars
  \/ \E s \in Slots : fetchRejects(s) /\ UNCHANGED outerVars
  \/ \E s \in Slots : settle(s) /\ UNCHANGED outerVars

Spec == Init /\ [][Next]_vars

\* A second caller may call loadTodos while an invocation is in flight.  A
\* fetch that is pending resolves or rejects, and the continuation of an
\* await whose promise has settled is run.  serve(s) and fetchRejects(s) are
\* enabled in the same states and each disables both, so weak fairness of
\* fetchRejects(s) says no more than that the fetch does not pend forever.
NextLive ==
  \/ Next
  \/ \E s \in Slots \ {Main} : ~AllIdle /\ loadTodos(s) /\ UNCHANGED outerVars

SpecLive ==
  /\ Init
  /\ [][NextLive]_vars
  /\ \A s \in Slots :
       /\ WF_vars(fetchRejects(s) /\ UNCHANGED outerVars)
       /\ WF_vars(settle(s) /\ UNCHANGED outerVars)

\* The derived views are functions of the list and the filter alone: they are
\* read over every list of sample todos and every filter setFilter builds.
Work == <<"w", "k">>
Urgent == <<"u">>
Home == <<"h">>

SampleTodos ==
  { [title |-> <<"a", "B">>, description |-> {}, completed |-> FALSE,
     priority |-> "high", dueDate |-> {0}, tags |-> <<Work>>, createdAt |-> 0],
    [title |-> <<"c">>, description |-> {<<"A", "b">>}, completed |-> TRUE,
     priority |-> "high", dueDate |-> {0}, tags |-> <<Home>>, createdAt |-> 1],
    [title |-> <<"c">>, description |-> {}, completed |-> FALSE,
     priority |-> "low", dueDate |-> {1}, tags |-> <<Urgent, Home>>, createdAt |-> 1],
    [title |-> <<"c">>, description |-> {<<"c">>}, completed |-> TRUE,
     priority |-> "medium", dueDate |-> {}, tags |-> <<Work, Urgent>>, createdAt |-> 0],
    [title |-> <<"c", " ">>, description |-> {}, completed |-> FALSE,
     priority |-> "medium", dueDate |-> {}, tags |-> << <<"A", "B">> >>, createdAt |-> 0],
    [title |-> <<"c">>, description |-> {}, completed |-> TRUE,
     priority |-> "low", dueDate |-> {1}, tags |-> <<>>, createdAt |-> 1] }

\* the lists of at most MaxListLen sample todos; the todo at position i has id i
TodoLists ==
  { [i \in 1..Len(q) |->
       spread(q[i], [id |-> i, updatedAt |-> q[i].createdAt])] :
    q \in SeqsUpTo(SampleTodos, MaxListLen) }

\* the arguments of setFilter
FilterUpdates ==
  { [status |-> {"active"}], [status |-> {"completed"}], [status |-> {}],
    [priority |-> {"high"}], [priority |-> {}],
    [tags |-> {<<Work, Urgent>>}], [tags |-> {}],
    [search |-> {<<"a", "B">>}], [search |-> {}] }

InitDerive ==
  /\ todos \in TodoLists
  /\ filter = emptyFilter
  /\ loading = FALSE
  /\ error = {}
  /\ editingTodo = {}
  /\ db = <<>>
  /\ clock = 0
  /\ calls = [s \in Slots |-> Idle]
  /\ loaded = TRUE
  /\ last = noCall
  /\ ncalls = 0
  /\ view = {}
  /\ stats = {}
  /\ exchange = noExchange
  /\ previous = noExchange
  /\ nrequests = 0
  /\ returned = noCall
  /\ ui = uiInitial
  /\ handlers = noHandlers

NextDerive ==
  \/ Tick /\ UNCHANGED outerVars
  \/ \E newFilter \in FilterUpdates : setFilter(newFilter) /\ UNCHANGED outerVars
  \/ clearFilter /\ UNCHANGED outerVars
  \/ readFilteredTodos /\ UNCHANGED outerVars
  \/ readStats /\ UNCHANGED outerVars

SpecDerive == InitDerive /\ [][NextDerive]_vars

\* ------------------------------------------ the routes, called directly
\* Each route is called as a route handler is: with any body a client may
\* send, against an object store earlier requests may have left.
MaxRequests == 1

\* tags: ['valid', '', '  ', 123, null, 'another-valid']
TagsMixed == <<Work, <<>>, <<" ", " ">>, Num, Null, Urgent>>

\* bodies of POST /api/todos
PostBodies ==
  { [title |-> <<" ", "a">>],
    [title |-> <<"a">>, tags |-> TagsMixed],
    [tags |-> <<Work>>],
    [title |-> Num],
    [title |-> Null],
    [title |-> <<>>],
    [title |-> Blank] }

\* bodies of PUT and PATCH /api/todos/[id], and the updates of PUT /api/todos
UpdateBodies ==
  { [completed |-> TRUE],
    [title |-> <<"b", " ">>],
    [title |-> Blank],
    [title |-> Num],
    [tags |-> TagsMixed],
    [createdAt |-> MaxClock],
    [id |-> MaxId] }

\* the updates of PUT /api/todos
BulkUpdates ==
  { [completed |-> TRUE], [tags |-> TagsMixed], [id |-> MaxId] }

\* bodies of PUT /api/todos
BulkUpdateBodies ==
  { [ids |-> ids, updates |-> u] : ids \in IdArrays, u \in BulkUpdates }
  \cup { [updates |-> u] : u \in BulkUpdates }

\* bodies of DELETE /api/todos
BulkDeleteBodies == { [ids |-> ids] : ids \in IdArrays } \cup { <<>> }

\* the failures of the one write a single-resource route makes
OneWrite == { {}, Ids }

\* the failures of the writes of PUT /api/todos, which the first one ends
FirstWrite == { {} } \cup { {i} : i \in Ids }

\* a second stored record
recordOne ==
  [id |-> MaxId, title |-> <<"b">>, description |-> {}, completed |-> FALSE,
   priority |-> "low", dueDate |-> {}, tags |-> <<Work>>, createdAt |-> 0,
   updatedAt |-> 0]

\* the object stores the requests find
RouteStores ==
  { <<>>,
    [k \in {1} |-> recordZero],
    [k \in {1, MaxId} |-> IF k = 1 THEN recordZero ELSE recordOne] }

\* the route answers r to the request
answer(route, id, body, readFault, faults, r) ==
  /\ nrequests < MaxRequests
  /\ nrequests' = nrequests + 1
  /\ db' = r.db
  /\ exchange' = [route |-> route, id |-> id, body |-> body,
                  readFault |-> readFault, faults |-> faults, before |-> db,
                  status |-> r.status, resp |-> r.body]
  /\ UNCHANGED <<todos, filter, loading, error, editingTodo, calls, loaded, last,
                 ncalls, view, stats, previous, returned, ui, handlers>>

callGET_todos_id ==
  \E id \in Ids, readFault \in BOOLEAN :
    /\ answer("GET_todos_id", id, <<>>, readFault, {},
              GET_todos_id(db, id, readFault))
    /\ clock' = clock

callPUT_todos_id ==
  \E id \in Ids, body \in UpdateBodies, readFault \in BOOLEAN,
     faults \in OneWrite, now \in clock..MaxClock :
    /\ readFault => faults = {}
    /\ answer("PUT_todos_id", id, body, readFault, faults,
              PUT_todos_id(db, id, body, now, readFault, faults))
    /\ clock' = now

callPATCH_todos_id ==
  \E id \in Ids, body \in UpdateBodies, readFault \in BOOLEAN,
     faults \in OneWrite, now \in clock..MaxClock :
    /\ readFault => faults = {}
    /\ answer("PATCH_todos_id", id, body, readFault, faults,
              PATCH_todos_id(db, id, body, now, readFault, faults))
    /\ clock' = now

callDELETE_todos_id ==
  \E id \in Ids, readFault \in BOOLEAN, faults \in OneWrite :
    /\ readFault => faults = {}
    /\ answer("DELETE_todos_id", id, <<>>, readFault, faults,
              DELETE_todos_id(db, id, readFault, faults))
    /\ clock' = clock

callPOST_todos ==
  \E body \in PostBodies, newId \in Ids, faults \in OneWrite,
     t1 \in clock..MaxClock :
    \E t2 \in t1..MaxClock :
      /\ answer("POST_todos", newId, body, FALSE, faults,
                POST_todos(db, body, newId, t1, t2, faults))
      /\ clock' = t2

callPUT_todos ==
  \E body \in BulkUpdateBodies, readFault \in BOOLEAN, faults \in FirstWrite,
     now \in clock..MaxClock :
    /\ readFault => faults = {}
    /\ answer("PUT_todos", 0, body, readFault, faults,
              PUT_todos(db, body, now, readFault, faults))
    /\ clock' = now

callDELETE_todos ==
  \E body \in BulkDeleteBodies, faults \in SUBSET Ids :
    /\ answer("DELETE_todos", 0, body, FALSE, faults,
              DELETE_todos(db, body, faults))
    /\ clock' = clock

InitRoutes ==
  /\ todos = <<>>
  /\ filter = emptyFilter
  /\ loading = FALSE
  /\ error = {}
  /\ editingTodo = {}
  /\ db \in RouteStores
  /\ clock = 0
  /\ calls = [s \in Slots |-> Idle]
  /\ loaded = FALSE
  /\ last = noCall
  /\ ncalls = 0
  /\ view = {}
  /\ stats = {}
  /\ exchange = noExchange
  /\ previous = noExchange
  /\ nrequests = 0
  /\ returned = noCall
  /\ ui = uiInitial
  /\ handlers = noHandlers

NextRoutes ==
  \/ callGET_todos_id
  \/ callPUT_todos_id
  \/ callPATCH_todos_id
  \/ callDELETE_todos_id
  \/ callPOST_todos
  \/ callPUT_todos
  \/ callDELETE_todos

SpecRoutes == InitRoutes /\ [][NextRoutes]_vars

\* ------------------------------------------- requests that overlap
\* A handler of /api/todos/[id] awaits dbManager.getAllTodos() and then
\* dbManager.updateTodo / deleteTodo: two transactions, between which the
\* handler of another request may run.  A handler is two steps: it reads the
\* store, and it answers from what it read, writing to the store as it is by
\* then.
MaxHandled == 2

\* the bodies of the PUT and PATCH requests
HandledBodies == { [completed |-> TRUE], [title |-> <<"b">>] }

\* the handler h has run up to the answer of getAllTodos()
handlerReads(h, route, id, body, readFault) ==
  /\ handlers[h].pc = "idle"
  /\ nrequests < MaxHandled
  /\ nrequests' = nrequests + 1
  /\ handlers' = [handlers EXCEPT ![h] =
                    [pc |-> "read", route |-> route, id |-> id, body |-> body,
                     readFault |-> readFault, read |-> db]]
  /\ UNCHANGED <<todos, filter, loading, error, editingTodo, db, clock, calls,
                 loaded, last, ncalls, view, stats, exchange, previous,
                 returned, ui>>

\* the handler h goes on from what getAllTodos() answered: it responds 404
\* or 500, or it merges the record it read and calls updateTodo (store.put),
\* or calls deleteTodo (store.delete), on the store as it is now
handlerWrites(h) ==
  /\ handlers[h].pc = "read"
  /\ \E now \in clock..MaxClock, faults \in OneWrite :
       LET c == handlers[h]
           r == CASE c.route = "PUT_todos_id" ->
                       PUT_todos_id(c.read, c.id, c.body, now, c.readFault, faults)
                  [] c.route = "PATCH_todos_id" ->
                       PATCH_todos_id(c.read, c.id, c.body, now, c.readFault, faults)
                  [] c.route = "DELETE_todos_id" ->
                       DELETE_todos_id(c.read, c.id, c.readFault, faults)
           written ==
             IF r.status # 200 THEN db
             ELSE IF c.route = "DELETE_todos_id" THEN dbDeleteTodo(db, c.id, FALSE).db
             ELSE dbUpdateTodo(db, r.body, FALSE).db
       IN  /\ c.readFault => faults = {}
           /\ db' = written
           /\ clock' = IF c.route = "DELETE_todos_id" THEN clock ELSE now
           /\ previous' = exchange
           /\ exchange' = [route |-> c.route, id |-> c.id, body |-> c.body,
                           readFault |-> c.readFault, faults |-> faults,
                           before |-> db, status |-> r.status, resp |-> r.body]
  /\ handlers' = [handlers EXCEPT ![h] = [pc |-> "idle"]]
  /\ UNCHANGED <<todos, filter, loading, error, editingTodo, calls, loaded, last,
                 ncalls, view, stats, nrequests, returned, ui>>

NextServer ==
  \/ \E h \in HandlerSlots, id \in Ids, body \in HandledBodies, readFault \in BOOLEAN :
       handlerReads(h, "PUT_todos_id", id, body, readFault)
  \/ \E h \in HandlerSlots, id \in Ids, body \in HandledBodies, readFault \in BOOLEAN :
       handlerReads(h, "PATCH_todos_id", id, body, readFault)
  \/ \E h \in HandlerSlots, id \in Ids, readFault \in BOOLEAN :
       handlerReads(h, "DELETE_todos_id", id, <<>>, readFault)
  \/ \E h \in HandlerSlots : handlerWrites(h)

SpecServer == InitRoutes /\ [][NextServer]_vars

\* ---------------------------------------------- overlapping invocations
\* Two callers invoke the async actions of the store without awaiting each
\* other: the session starts after a successful loadTodos() of a stored
\* collection, and an action may start while another awaits its fetch.
loadedList(store) ==
  api_getTodos([rejected |-> FALSE, status |-> 200,
                body |-> GET_todos(store, <<>>, FALSE).body]).value

InitOverlap ==
  /\ db \in RouteStores
  /\ todos = loadedList(db)
  /\ filter = emptyFilter
  /\ loading = FALSE
  /\ error = {}
  /\ editingTodo = {}
  /\ clock = 0
  /\ calls = [s \in Slots |-> Idle]
  /\ loaded = TRUE
  /\ last = noCall
  /\ ncalls = 0
  /\ view = {}
  /\ stats = {}
  /\ exchange = noExchange
  /\ previous = noExchange
  /\ nrequests = 0
  /\ returned = noCall
  /\ ui = uiInitial
  /\ handlers = noHandlers

\* the number of invocations made in a session of overlapping callers
MaxOverlap == 2

\* an invocation starts
invoke(started) ==
  /\ ncalls < MaxOverlap
  /\ started
  /\ returned' = noCall
  /\ UNCHANGED <<exchange, previous, nrequests, ui, handlers>>

\* an invocation in flight moves on without returning
proceed(moved) ==
  /\ moved
  /\ UNCHANGED outerVars

\* an invocation returns: the one that returned before it is kept
return(settles) ==
  /\ settles
  /\ returned' = last
  /\ UNCHANGED <<exchange, previous, nrequests, ui, handlers>>

NextOverlap ==
  \/ \E s \in Slots : invoke(loadTodos(s))
  \/ \E s \in Slots, d \in Drafts : invoke(addTodo(s, d))
  \/ \E s \in Slots, id \in Ids, u \in Patches : invoke(updateTodo(s, id, u, "updateTodo"))
  \/ \E s \in Slots, id \in Ids : invoke(deleteTodo(s, id))
  \/ \E s \in Slots : proceed(serve(s))
  \/ \E s \in Slots : proceed(fetchRejects(s))
  \/ \E s \in Slots : return(settle(s))

SpecOverlap == InitOverlap /\ [][NextOverlap]_vars

\* ------------------------------------------ the UI store, called directly
\* The selection and bulk-mode actions of useUIStore and the Exit handler of
\* the bulk-action bar, called one after the other.
MaxUiCalls == 3

\* the UI store after openAddTodoModal(), openEditTodoModal("1"),
\* openDeleteConfirmModal(MaxId), toggleFilterDrawer(), toggleMobileMenu(),
\* setTheme("dark") and setLoading(true, "x")
uiBusy ==
  setLoading(
    setTheme(
      toggleMobileMenu(
        toggleFilterDrawer(
          openDeleteConfirmModal(
            openEditTodoModal(openAddTodoModal(uiInitial), 1), MaxId))),
      "dark"),
    TRUE, <<"x">>)

\* the action named op has run on the UI store and left it in state next
uiCall(op, id, arg, next) ==
  /\ nrequests < MaxUiCalls
  /\ nrequests' = nrequests + 1
  /\ ui' = next
  /\ previous' = exchange
  /\ exchange' = [route |-> op, id |-> id, body |-> arg, before |-> ui]
  /\ UNCHANGED <<todos, filter, loading, error, editingTodo, db, clock, calls,
                 loaded, last, ncalls, view, stats, returned, handlers>>

callToggleTodoSelection ==
  \E todoId \in Ids :
    uiCall("toggleTodoSelection", todoId, <<>>, toggleTodoSelection(ui, todoId))

callSelectAllTodos ==
  \E todoIds \in IdArrays :
    uiCall("selectAllTodos", 0, todoIds, selectAllTodos(ui, todoIds))

callClearSelection == uiCall("clearSelection", 0, <<>>, clearSelection(ui))

callToggleBulkMode == uiCall("toggleBulkMode", 0, <<>>, toggleBulkMode(ui))

\* the Exit button is rendered in bulk mode only
clickExit ==
  /\ ui.isBulkMode
  /\ uiCall("handleExitBulkMode", 0, <<>>, handleExitBulkMode(ui))

InitUI ==
  /\ todos = <<>>
  /\ filter = emptyFilter
  /\ loading = FALSE
  /\ error = {}
  /\ editingTodo = {}
  /\ db = <<>>
  /\ clock = 0
  /\ calls = [s \in Slots |-> Idle]
  /\ loaded = FALSE
  /\ last = noCall
  /\ ncalls = 0
  /\ view = {}
  /\ stats = {}
  /\ exchange = noExchange
  /\ previous = noExchange
  /\ nrequests = 0
  /\ returned = noCall
  /\ ui \in {uiInitial, uiBusy}
  /\ handlers = noHandlers

NextUI ==
  \/ callToggleTodoSelection
  \/ callSelectAllTodos
  \/ callClearSelection
  \/ callToggleBulkMode
  \/ clickExit

SpecUI == InitUI /\ [][NextUI]_vars

\* ------------------------------------------------- the edit form of Home
\* Home renders a TodoCard per todo and the edit TodoForm with
\* isOpen={isEditTodoModalOpen}, onClose={closeEditTodoModal}, mode="edit" and
\* todo={editingTodo || undefined}, editingTodo being the todo store's.

\* TodoForm's formData once its effect has run and the title has been typed
formData(todo, mode, title) ==
  IF todo # {} /\ mode = "edit"
  THEN LET t == CHOOSE x \in todo : TRUE
       IN  [title |-> title, description |-> <<>>, priority |-> t.priority,
            dueDate |-> <<>>, tags |-> t.tags]
  ELSE [title |-> title, description |-> <<>>, priority |-> "medium",
        dueDate |-> <<>>, tags |-> <<>>]

\* validateForm; no due date is entered
validateForm(form) == trim(form.title) # <<>>

\* the todoData of handleSubmit; description and dueDate are undefined
todoDataOf(form, todo) ==
  [title |-> trim(form.title), priority |-> form.priority, tags |-> form.tags,
   completed |-> IF todo = {} THEN FALSE ELSE (CHOOSE x \in todo : TRUE).completed]

\* the edit button of the card of todo is clicked
handleEdit(todo) ==
  /\ ~ui.isEditTodoModalOpen
  /\ ui' = openEditTodoModal(ui, todo.id)
  /\ exchange' = [route |-> "handleEdit", id |-> {todo.id}, before |-> ui]
  /\ previous' = exchange
  /\ UNCHANGED <<todos, filter, loading, error, editingTodo, db, clock, calls,
                 loaded, last, ncalls, view, stats, nrequests, returned, handlers>>

\* the Cancel button of the edit form: onClose()
cancelEdit ==
  /\ ui.isEditTodoModalOpen
  /\ AllIdle
  /\ ui' = closeEditTodoModal(ui)
  /\ exchange' = [route |-> "onClose", id |-> ui.editingTodoId, before |-> ui]
  /\ previous' = exchange
  /\ UNCHANGED <<todos, filter, loading, error, editingTodo, db, clock, calls,
                 loaded, last, ncalls, view, stats, nrequests, returned, handlers>>

\* the edit form is submitted with title in its title field, up to the await
handleSubmit(s, title) ==
  LET todo == editingTodo
      form == formData(todo, "edit", title)
      todoData == todoDataOf(form, todo)
  IN  /\ ui.isEditTodoModalOpen
      /\ AllIdle
      /\ validateForm(form)
      /\ IF todo # {}
         THEN updateTodo(s, (CHOOSE x \in todo : TRUE).id, todoData, "updateTodo")
         ELSE addTodo(s, todoData)
      /\ exchange' = [route |-> "handleSubmit", id |-> ui.editingTodoId,
                      before |-> ui]
      /\ previous' = exchange
      /\ UNCHANGED <<nrequests, returned, ui, handlers>>

\* the store action awaited by handleSubmit returns; onClose() unless it threw
handleSubmit_settled(s) ==
  /\ settle(s)
  /\ ui' = IF last'.rejects THEN ui ELSE closeEditTodoModal(ui)
  /\ UNCHANGED <<exchange, previous, nrequests, returned, handlers>>

\* setEditingTodo has no caller in the application, so it is no step here
NextPage ==
  \/ \E i \in 1..Len(todos) : handleEdit(todos[i])
  \/ cancelEdit
  \/ \E title \in {<<"b">>, <<" ", "b">>, Blank} : handleSubmit(Main, title)
  \/ \E s \in {Main} : proceed(serve(s))
  \/ \E s \in {Main} : proceed(fetchRejects(s))
  \/ \E s \in {Main} : handleSubmit_settled(s)

SpecPage == InitOverlap /\ [][NextPage]_vars

\* ------------------------------------------- the list route with a filter
\* api.getTodos(filter) puts the filter into the query string and the GET
\* route reads it back; the store derives its view from the same filter.

\* Array.prototype.join
RECURSIVE join(_, _)
join(arr, sep) ==
  IF arr = <<>> THEN <<>>
  ELSE IF Len(arr) = 1 THEN arr[1]
  ELSE arr[1] \o sep \o join(Tail(arr), sep)

\* String.prototype.split with a separator of one character
RECURSIVE split(_, _)
split(str, sep) ==
  LET cuts == {i \in 1..Len(str) : <<str[i]>> = sep}
      i == CHOOSE x \in cuts : \A y \in cuts : x <= y
  IN  IF cuts = {} THEN <<str>>
      ELSE <<SubSeq(str, 1, i - 1)>> \o split(SubSeq(str, i + 1, Len(str)), sep)

\* api.getTodos: the URLSearchParams built from the filter, as the route
\* reads them (tags after its split(','))
paramsOf(f) ==
  LET one(S) == CHOOSE x \in S : TRUE
      status == IF f.status # {} THEN [status |-> one(f.status)] ELSE <<>>
      priority == IF f.priority # {} /\ one(f.priority) # ""
                  THEN [priority |-> one(f.priority)] ELSE <<>>
      tags == IF f.tags # {} /\ Len(one(f.tags)) > 0
              THEN [tags |-> split(join(one(f.tags), <<",">>), <<",">>)] ELSE <<>>
      search == IF f.search # {} /\ one(f.search) # <<>>
                THEN [search |-> one(f.search)] ELSE <<>>
  IN  spread(spread(status, priority), spread(tags, search))

\* a tag typed with a comma in it
Pair == <<"u", ",", "h">>

QueryTodos ==
  SampleTodos \cup
  { [title |-> <<"c">>, description |-> {}, completed |-> FALSE,
     priority |-> "high", dueDate |-> {}, tags |-> <<Pair>>, createdAt |-> 1] }

\* the stored collections: the record at key i has id i
QueryStores ==
  { [i \in 1..Len(q) |->
       spread(q[i], [id |-> i, updatedAt |-> q[i].createdAt])] :
    q \in SeqsUpTo(QueryTodos, MaxListLen) }

\* api.getTodos(filter) with the filter of the store, answered by the route
api_getTodos_filter(readFault) ==
  LET query == paramsOf(filter)
      r == GET_todos(db, query, readFault)
      result == api_getTodos([rejected |-> FALSE, status |-> r.status, body |-> r.body])
  IN  /\ exchange' = [route |-> "GET_todos", filter |-> filter, query |-> query,
                      status |-> r.status, resp |-> r.body,
                      threw |-> result.threw, value |-> result.value]
      /\ UNCHANGED <<todos, filter, loading, error, editingTodo, db, clock, calls,
                     loaded, last, ncalls, view, stats, previous, nrequests,
                     returned, ui, handlers>>

InitQuery ==
  /\ db \in QueryStores
  /\ todos = loadedList(db)
  /\ filter = emptyFilter
  /\ loading = FALSE
  /\ error = {}
  /\ editingTodo = {}
  /\ clock = 0
  /\ calls = [s \in Slots |-> Idle]
  /\ loaded = TRUE
  /\ last = noCall
  /\ ncalls = 0
  /\ view = {}
  /\ stats = {}
  /\ exchange = noExchange
  /\ previous = noExchange
  /\ nrequests = 0
  /\ returned = noCall
  /\ ui = uiInitial
  /\ handlers = noHandlers

NextQuery ==
  \/ \E newFilter \in FilterUpdates \cup { [tags |-> {<<Pair>>}] } :
       setFilter(newFilter) /\ UNCHANGED outerVars
  \/ clearFilter /\ UNCHANGED outerVars
  \/ \E readFault \in BOOLEAN : api_getTodos_filter(readFault)

SpecQuery == InitQuery /\ [][NextQuery]_vars

\* ------------------------------------------ the adapter, called directly
\* dbManager.addTodo, updateTodo and deleteTodo called one after the other,
\* as its tests call them.
MaxAdapterCalls == 2

\* the todos handed to addTodo and updateTodo
AdapterTodos ==
  { spread(recordZero, [id |-> i, completed |-> c, priority |-> p]) :
      i \in Ids, c \in BOOLEAN, p \in {"medium", "low"} }

\* the filters handed to getTodosByFilter; no record has priority "urgent"
AdapterFilters ==
  LET completedOnly == { [completed |-> c] : c \in BOOLEAN }
      priorityOnly == { [priority |-> p] : p \in {"medium", "low", "urgent", ""} }
  IN  {<<>>} \cup completedOnly \cup priorityOnly
        \cup { spread(a, b) : a \in completedOnly, b \in priorityOnly }

\* the promise of the adapter call settles: r is [ok, db]
settled(op, id, todo, fault, r) ==
  /\ nrequests < MaxAdapterCalls
  /\ nrequests' = nrequests + 1
  /\ db' = r.db
  /\ previous' = exchange
  /\ exchange' = [route |-> op, id |-> id, body |-> todo, fault |-> fault,
                  before |-> db, ok |-> r.ok]
  /\ UNCHANGED <<todos, filter, loading, error, editingTodo, clock, calls, loaded,
                 last, ncalls, view, stats, returned, ui, handlers>>

callAddTodo ==
  \E todo \in AdapterTodos, fault \in BOOLEAN :
    settled("addTodo", todo.id, todo, fault, dbAddTodo(db, todo, fault))

callUpdateTodo ==
  \E todo \in AdapterTodos, fault \in BOOLEAN :
    settled("updateTodo", todo.id, todo, fault, dbUpdateTodo(db, todo, fault))

callDeleteTodo ==
  \E id \in Ids, fault \in BOOLEAN :
    settled("deleteTodo", id, <<>>, fault, dbDeleteTodo(db, id, fault))

\* the promise of getTodosByFilter settles: resolve(todos) or reject
callGetTodosByFilter ==
  \E f \in AdapterFilters, fault \in BOOLEAN :
    LET r == dbGetTodosByFilter(db, f, fault)
    IN  /\ nrequests < MaxAdapterCalls
        /\ nrequests' = nrequests + 1
        /\ previous' = exchange
        /\ exchange' = [route |-> "getTodosByFilter", id |-> 0, body |-> f,
                        fault |-> fault, before |-> db, ok |-> r.ok,
                        result |-> r.todos]
        /\ UNCHANGED <<todos, filter, loading, error, editingTodo, db, clock,
                       calls, loaded, last, ncalls, view, stats, returned, ui,
                       handlers>>

InitAdapter ==
  /\ todos = <<>>
  /\ filter = emptyFilter
  /\ loading = FALSE
  /\ error = {}
  /\ editingTodo = {}
  /\ db \in RouteStores
  /\ clock = 0
  /\ calls = [s \in Slots |-> Idle]
  /\ loaded = FALSE
  /\ last = noCall
  /\ ncalls = 0
  /\ view = {}
  /\ stats = {}
  /\ exchange = noExchange
  /\ previous = noExchange
  /\ nrequests = 0
  /\ returned = noCall
  /\ ui = uiInitial
  /\ handlers = noHandlers

NextAdapter ==
  \/ callAddTodo
  \/ callUpdateTodo
  \/ callDeleteTodo
  \/ callGetTodosByFilter

SpecAdapter == InitAdapter /\ [][NextAdapter]_vars

\* ------------------------------------------------------------ claims
positions(list) == 1..Len(list)

\* C1: once a loadTodos has succeeded, whenever no store action is in flight
\* the in-memory list holds exactly the ids of the object store and each
\* in-memory todo has the completed flag of its stored record.
C1_MemoryMatchesDurable ==
  (loaded /\ AllIdle) =>
    /\ idsOf(todos) = DOMAIN db
    /\ \A i \in positions(todos) :
         todos[i].id \in DOMAIN db => todos[i].completed = db[todos[i].id].completed

\* the ids the response of the last bulk delete reports as deleted
lastDeletedIds ==
  {last.resp.body.deleted[i] : i \in 1..Len(last.resp.body.deleted)}

\* C2: after deleteTodos(ids) whose request succeeded, the in-memory list has
\* lost exactly the entries whose ids were durably deleted; every listed entry
\* whose delete failed is still in the list.
C2_BulkDeletePrunesOnlyDeleted ==
  (last.op = "deleteTodos" /\ last.ok) =>
    \A i \in positions(last.before.todos) :
      LET t == last.before.todos[i]
      IN  /\ t.id \in lastDeletedIds => t.id \notin idsOf(todos)
          /\ t.id \notin lastDeletedIds => arrIncludes(todos, t)

\* C3: a step changes the in-memory list only as the continuation of an
\* invocation whose persistence request has returned success; the steps of an
\* invocation before that change nothing but loading and error.
C3_UpdateAfterConfirmation ==
  [][ \A s \in Slots :
        (calls'[s] # calls[s] /\ ~(calls[s].pc = "responded" /\ responseOk(calls[s].resp)))
          => (todos' = todos /\ filter' = filter /\ editingTodo' = editingTodo) ]_vars

AsyncOps ==
  {"loadTodos", "addTodo", "updateTodo", "deleteTodo", "deleteTodos", "toggleTodos"}

failureMessage(op) ==
  CASE op = "loadTodos" -> "Failed to load todos"
    [] op = "addTodo" -> "Failed to add todo"
    [] op = "updateTodo" -> "Failed to update todo"
    [] op = "deleteTodo" -> "Failed to delete todo"
    [] op = "deleteTodos" -> "Failed to delete todos"
    [] op = "toggleTodos" -> "Failed to toggle todos"

\* C4: when the persistence request of an async store action fails, the action
\* returns without throwing, error is the action's fixed message, loading is
\* false and the in-memory list is the list at the action's entry.
C4_FailureSetsErrorKeepsList ==
  (AllIdle /\ last.op \in AsyncOps /\ last.requested /\ ~last.ok) =>
    /\ ~last.rejects
    /\ error = {failureMessage(last.op)}
    /\ loading = FALSE
    /\ todos = last.entry

\* the first position of the list whose id is among ids (0 if none)
firstListed(list, ids) ==
  LET hits == {i \in positions(list) : arrIncludes(ids, list[i].id)}
  IN  IF hits = {} THEN 0 ELSE CHOOSE i \in hits : \A j \in hits : i <= j

\* C5: a successful toggleTodos(ids) gives every in-memory todo whose id is in
\* ids the negation of the completed flag of the first todo, in list order,
\* whose id is in ids; the other todos are unchanged.
C5_BulkToggleFollowsFirstInList ==
  (last.op = "toggleTodos" /\ last.requested /\ last.ok) =>
    LET old == last.before.todos
        ref == old[firstListed(last.entry, last.arg.ids)]
    IN  /\ Len(todos) = Len(old)
        /\ \A i \in positions(old) :
             IF arrIncludes(last.arg.ids, old[i].id)
             THEN /\ todos[i].completed = ~ref.completed
                  /\ todos[i].id = old[i].id
             ELSE todos[i] = old[i]

\* C6: toggleTodo(id) and toggleTodos(ids) that match no in-memory todo issue
\* no persistence request and change no field of the store.
C6_ToggleWithoutMatchIsNoOp ==
  [][ ( /\ ncalls' = ncalls + 1
        /\ \/ last'.op = "toggleTodo" /\ last'.arg.id \notin idsOf(todos)
           \/ last'.op = "toggleTodos" /\ firstListed(todos, last'.arg.ids) = 0 )
      => UNCHANGED <<todos, filter, loading, error, editingTodo, calls, db>> ]_vars

\* the todo passes every stage whose filter field is set
passesFilter(todo, f) ==
  /\ f.status = {"active"} => ~todo.completed
  /\ f.status = {"completed"} => todo.completed
  /\ \A priority \in f.priority : todo.priority = priority
  /\ \A tags \in f.tags :
       Len(tags) > 0 =>
         \E i \in 1..Len(tags), j \in 1..Len(todo.tags) : tags[i] = todo.tags[j]
  /\ \A search \in f.search :
       search # <<>> =>
         LET term == toLowerCase(search)
         IN  \/ strIncludes(toLowerCase(todo.title), term)
             \/ \E d \in todo.description : strIncludes(toLowerCase(d), term)
             \/ \E j \in 1..Len(todo.tags) : strIncludes(toLowerCase(todo.tags[j]), term)

\* C7: getFilteredTodos returns exactly the in-memory todos that pass every
\* stage whose filter field is set, ordered by createdAt descending; with
\* filter tags {work, urgent} a todo tagged only work is returned.
C7_FilteredTodosAreThePassingOnes ==
  \A v \in view :
    /\ \A i \in positions(v) : arrIncludes(todos, v[i]) /\ passesFilter(v[i], filter)
    /\ \A i \in positions(todos) : passesFilter(todos[i], filter) => arrIncludes(v, todos[i])
    /\ Len(v) = Cardinality({i \in positions(todos) : passesFilter(todos[i], filter)})
    /\ \A i, j \in positions(v) : i < j => v[i].createdAt >= v[j].createdAt
    /\ filter = [emptyFilter EXCEPT !.tags = {<<Work, Urgent>>}] =>
         \A i \in positions(todos) : todos[i].tags = <<Work>> => arrIncludes(v, todos[i])

\* C8: getStats returns total = the number of todos, completed = the number
\* completed, active = total - completed, overdue = the number not completed
\* with a dueDate strictly before the time of the call; so overdue <= active
\* and the empty list gives four zeros.
C8_StatsCountTheList ==
  \A st \in stats :
    LET done == {i \in positions(todos) : todos[i].completed}
        late == {i \in positions(todos) :
                   ~todos[i].completed /\ \E d \in todos[i].dueDate : d < clock}
    IN  /\ st.total = Len(todos)
        /\ st.completed = Cardinality(done)
        /\ st.active = st.total - st.completed
        /\ st.overdue = Cardinality(late)
        /\ st.overdue <= st.active
        /\ \A i \in done : \A j \in late : i # j
        /\ todos = <<>> => st = [total |-> 0, completed |-> 0, active |-> 0, overdue |-> 0]

\* C9: a successful addTodo makes the todo returned by the persistence layer
\* the first element of the list, followed by the previous elements in their
\* previous order.
C9_AddPrepends ==
  (last.op = "addTodo" /\ last.ok) =>
    todos = <<reviveDates(last.resp.body)>> \o last.before.todos

\* C10: a successful updateTodo(id, patch) replaces the entry with that id by
\* the record the persistence layer returned and sets editingTodo to null;
\* every other entry, the length and the order are unchanged, and with no entry
\* of that id the list is unchanged.
C10_UpdateReplacesInPlace ==
  (last.op = "updateTodo" /\ last.ok) =>
    LET old == last.before.todos
    IN  /\ Len(todos) = Len(old)
        /\ \A i \in positions(old) :
             todos[i] = IF old[i].id = last.arg.id
                        THEN reviveDates(last.resp.body) ELSE old[i]
        /\ editingTodo = {}
        /\ (last.arg.id \notin idsOf(old) => todos = old)

\* ---------------------------------------------------------- witnesses
\* an invocation awaits its response while the list it will change is not empty
C3_Witness ==
  /\ calls[Main].pc = "responded"
  /\ calls[Main].op \in {"deleteTodo", "deleteTodos", "toggleTodos", "updateTodo"}
  /\ responseOk(calls[Main].resp)
  /\ loading /\ todos # <<>> /\ todos = calls[Main].entry

\* a bulk action failed on a list that is not empty
C4_Witness ==
  /\ AllIdle /\ last.op \in {"toggleTodos", "deleteTodos"}
  /\ last.requested /\ ~last.ok
  /\ todos # <<>>

\* the first listed todo in list order is not the todo of ids[1], and the two
\* had different flags
C5_Witness ==
  /\ last.op = "toggleTodos" /\ last.requested /\ last.ok
  /\ Len(last.arg.ids) = 2
  /\ LET old == last.before.todos
         k == firstListed(old, last.arg.ids)
     IN  /\ old[k].id # last.arg.ids[1]
         /\ \E j \in positions(old) :
              old[j].id = last.arg.ids[1] /\ old[j].completed # old[k].completed

\* a bulk toggle returned at once although the list is not empty
C6_Witness ==
  /\ last.op = "toggleTodos" /\ ~last.requested
  /\ last.arg.ids # <<>> /\ todos # <<>> /\ error # {}

\* under filter tags {work, urgent} alone a todo tagged only work is returned,
\* behind a newer todo that came after it in the list
C7_Witness ==
  \E v \in view :
    /\ filter = [emptyFilter EXCEPT !.tags = {<<Work, Urgent>>}]
    /\ Len(todos) = 2 /\ Len(v) = 2
    /\ v[2] = todos[1] /\ v[2].tags = <<Work>>

\* a completed todo and an open todo are both past their dueDate
C8_Witness ==
  \E st \in stats :
    /\ st.overdue = 1 /\ st.completed = 1 /\ st.total = 2
    /\ \A i \in positions(todos) : \E d \in todos[i].dueDate : d < clock

\* a todo was added in front of a list that was not empty
C9_Witness ==
  /\ last.op = "addTodo" /\ last.ok
  /\ last.before.todos # <<>>
  /\ todos[1].id = last.resp.body.id

\* the entry edited was replaced by a different record in a longer list
C10_Witness ==
  /\ last.op = "updateTodo" /\ last.ok
  /\ last.before.editingTodo # {}
  /\ \E i \in positions(todos) :
       todos[i].id = last.arg.id /\ todos[i] # last.before.todos[i]

\* ------------------------------------------------- claims about the routes
\* the body carries an array of ids that is not empty
hasIds(body) == "ids" \in DOMAIN body /\ Len(body.ids) > 0

\* a string that is empty once its blanks are trimmed, or no string at all
notATitle(v) == v \in NonStrings \/ \A i \in 1..Len(v) : v[i] = " "

\* a tag that is a string and is not blank
cleanTag(tag) == tag \notin NonStrings /\ \E i \in 1..Len(tag) : tag[i] # " "

\* C12: after PUT /todos/{id}, PATCH /todos/{id} or bulk PUT /todos, whatever
\* the body carries, the store holds records under the same ids as before,
\* each with the createdAt it had, and none under another id.
C12_UpdateKeepsIdAndCreatedAt ==
  exchange.route \in {"PUT_todos_id", "PATCH_todos_id", "PUT_todos"} =>
    /\ DOMAIN db = DOMAIN exchange.before
    /\ \A k \in DOMAIN db :
         db[k].id = k /\ db[k].createdAt = exchange.before[k].createdAt

\* C13: after POST /todos, PUT /todos/{id}, PATCH /todos/{id} or bulk PUT
\* /todos every stored record's tags are strings that are not blank, and a
\* request is answered 400 only for its title or its ids, never for its tags.
C13_StoredTagsAreClean ==
  exchange.route \in {"POST_todos", "PUT_todos_id", "PATCH_todos_id", "PUT_todos"} =>
    /\ \A k \in DOMAIN db : \A i \in 1..Len(db[k].tags) : cleanTag(db[k].tags[i])
    /\ exchange.status = 400 =>
         \/ exchange.route = "PUT_todos" /\ ~hasIds(exchange.body)
         \/ /\ exchange.route = "POST_todos"
            /\ "title" \notin DOMAIN exchange.body \/ notATitle(exchange.body.title)
         \/ /\ exchange.route = "PUT_todos_id"
            /\ "title" \in DOMAIN exchange.body
            /\ notATitle(exchange.body.title)

\* C14: POST /todos whose title is missing, no string or blank, and PUT
\* /todos/{id} whose title is given and is no string or blank, answer 400
\* with their fixed message and write nothing.
C14_InvalidTitleIs400 ==
  /\ ( /\ exchange.route = "POST_todos"
       /\ "title" \notin DOMAIN exchange.body \/ notATitle(exchange.body.title) )
     => /\ exchange.status = 400
        /\ exchange.resp =
             [error |-> "Title is required and must be a non-empty string"]
        /\ db = exchange.before
  /\ ( /\ exchange.route = "PUT_todos_id"
       /\ "title" \in DOMAIN exchange.body
       /\ notATitle(exchange.body.title) )
     => /\ exchange.status = 400
        /\ exchange.resp = [error |-> "Title must be a non-empty string"]
        /\ db = exchange.before

SingleRoutes == {"GET_todos_id", "PUT_todos_id", "DELETE_todos_id", "PATCH_todos_id"}

\* the request names an id that has no stored record
unknownId ==
  exchange.route \in SingleRoutes /\ exchange.id \notin DOMAIN exchange.before

C17_BulkDeleteFailureIs500 ==
  ( /\ exchange.route = "DELETE_todos"
    /\ hasIds(exchange.body)
    /\ \A i \in 1..Len(exchange.body.ids) : exchange.body.ids[i] \in exchange.faults )
  => /\ exchange.status = 500
     /\ exchange.resp = [error |-> "Failed to delete todos"]

\* C18: bulk PUT /todos with ids that are not empty creates no record; when
\* no read or write fails it answers 200, updated holds the stored record of
\* each requested id that had one, in request order, and count is its length.
C18_BulkUpdateSkipsUnknownIds ==
  (exchange.route = "PUT_todos" /\ hasIds(exchange.body)) =>
    LET ids == exchange.body.ids
        stored(id) == id \in DOMAIN exchange.before
        known == SelectSeq(ids, stored)
    IN  /\ DOMAIN db \subseteq DOMAIN exchange.before
        /\ ( /\ ~exchange.readFault
             /\ \A i \in 1..Len(known) : known[i] \notin exchange.faults )
           => /\ exchange.status = 200
              /\ Len(exchange.resp.updated) = Len(known)
              /\ exchange.resp.count = Len(known)
              /\ \A i \in 1..Len(known) :
                   /\ exchange.resp.updated[i].id = known[i]
                   /\ db[known[i]] = exchange.resp.updated[i]

\* POST /todos with a number for a title was answered 400
C14_Witness ==
  /\ exchange.route = "POST_todos"
  /\ "title" \in DOMAIN exchange.body
  /\ exchange.body.title = Num
  /\ exchange.status = 400

without(st, id) == [k \in (DOMAIN st) \ {id} |-> st[k]]

\* C19: addTodo with an id that has a record fails and leaves the record as
\* it was; updateTodo, unless its transaction fails, succeeds whether or not
\* the id had a record, and the store then holds todo under that id and
\* every other record as before.
C19_AddRejectsUpdateUpserts ==
  /\ (exchange.route = "addTodo" /\ exchange.id \in DOMAIN exchange.before)
     => ~exchange.ok /\ db = exchange.before
  /\ (exchange.route = "updateTodo" /\ ~exchange.fault)
     => /\ exchange.ok
        /\ DOMAIN db = (DOMAIN exchange.before) \cup {exchange.id}
        /\ db[exchange.id] = exchange.body
        /\ without(db, exchange.id) = without(exchange.before, exchange.id)

\* C20: deleteTodo, unless its transaction fails, succeeds whether or not the
\* id has a record and removes at most that record; a second deleteTodo of
\* the same id right after it succeeds and leaves the store as the first did.
C20_DeleteIsIdempotent ==
  /\ (exchange.route = "deleteTodo" /\ ~exchange.fault)
     => /\ exchange.ok
        /\ db = without(exchange.before, exchange.id)
  /\ ( /\ exchange.route = "deleteTodo" /\ ~exchange.fault
       /\ previous.route = "deleteTodo" /\ ~previous.fault
       /\ previous.id = exchange.id )
     => exchange.ok /\ db = exchange.before

\* addTodo was refused for a stored id, then updateTodo created a record
C19_Witness ==
  /\ previous.route = "addTodo"
  /\ previous.id \in DOMAIN previous.before
  /\ ~previous.fault
  /\ ~previous.ok
  /\ exchange.route = "updateTodo"
  /\ exchange.id \notin DOMAIN exchange.before
  /\ exchange.ok
  /\ exchange.id \in DOMAIN db

\* a stored record was deleted twice in a row while another record is stored
C20_Witness ==
  /\ previous.route = "deleteTodo"
  /\ previous.id \in DOMAIN previous.before
  /\ previous.ok
  /\ exchange.route = "deleteTodo"
  /\ exchange.id = previous.id
  /\ exchange.ok
  /\ DOMAIN db # {}

\* ------------------------------------------- claims about the loading flag
\* this step is the entry of an invocation of an async store action
invoked == ncalls' = ncalls + 1 /\ last'.op # "setEditingTodo"

\* this step is the entry of an invocation that issues its request
requested == \E s \in Slots : calls[s].pc = "idle" /\ calls'[s].pc = "fetching"

\* an invocation in flight is settled in the end, with loading false
settlesInTheEnd ==
  \A s \in Slots : (calls[s].pc # "idle") ~> (calls[s].pc = "idle" /\ ~loading)

\* C11 as stated: every invocation of an async store action sets loading to
\* true on entry and in the end, its request having resolved or rejected,
\* sets loading to false; when no invocation is in flight loading is false.
C11_LoadingOnEveryEntry ==
  /\ [][invoked => loading']_vars
  /\ settlesInTheEnd
  /\ [](AllIdle => ~loading)

\* C11 as amended: every invocation that issues a persistence request sets
\* loading to true on entry and in the end sets loading to false; when no
\* invocation is in flight loading is false.
C11_LoadingWhileRequested ==
  /\ [][requested => loading']_vars
  /\ settlesInTheEnd
  /\ [](AllIdle => ~loading)

\* an addTodo whose request failed has returned and set loading to false
\* while the loadTodos of a second caller is still in flight
C11_Witness ==
  /\ last.op = "addTodo"
  /\ last.requested
  /\ ~last.ok
  /\ calls["p"].pc = "idle"
  /\ calls["q"].pc # "idle"
  /\ ~loading

\* ------------------------------------------- claims about getTodosByFilter
\* getAllTodos() over st, then the records whose completed is f.completed
\* (when f has completed) and whose priority is f.priority (when given(f))
keptBy(st, f, priorityGiven) ==
  LET keeps(todo) ==
        /\ "completed" \in DOMAIN f => todo.completed = f.completed
        /\ priorityGiven => todo.priority = f.priority
  IN  SelectSeq(dbGetAllTodos(st), keeps)

prioritiesIn(st) == {st[k].priority : k \in DOMAIN st}

\* C21 as stated: getTodosByFilter returns what getAllTodos followed by
\* keeping the records of the filter's completed and of the filter's priority,
\* each when the filter has it, returns; every record for the empty filter,
\* none for a priority no record has.
C21_ByFilterIsGetAllThenFilter ==
  (exchange.route = "getTodosByFilter" /\ exchange.ok) =>
    LET f == exchange.body
        st == exchange.before
    IN  /\ exchange.result = keptBy(st, f, "priority" \in DOMAIN f)
        /\ f = <<>> => exchange.result = dbGetAllTodos(st)
        /\ ("priority" \in DOMAIN f /\ f.priority \notin prioritiesIn(st))
             => exchange.result = <<>>

\* C21, amended: the same with a priority counting as given when the filter
\* has one that is not the empty string.
C21_ByFilterIsGetAllThenFilterNonEmpty ==
  (exchange.route = "getTodosByFilter" /\ exchange.ok) =>
    LET f == exchange.body
        st == exchange.before
        given == "priority" \in DOMAIN f /\ f.priority # ""
    IN  /\ exchange.result = keptBy(st, f, given)
        /\ f = <<>> => exchange.result = dbGetAllTodos(st)
        /\ (given /\ f.priority \notin prioritiesIn(st)) => exchange.result = <<>>

\* both fields of the filter narrowed a store of two records to one of them
C21_Witness ==
  /\ exchange.route = "getTodosByFilter"
  /\ exchange.ok
  /\ DOMAIN exchange.body = {"completed", "priority"}
  /\ Cardinality(DOMAIN exchange.before) = 2
  /\ \A k \in DOMAIN exchange.before :
       exchange.before[k].priority = exchange.body.priority
  /\ Len(exchange.result) = 1

\* ------------------------------------------------ claims about POST /todos
\* C22: after a successful POST /todos the created todo's id is the id of no
\* record the store held before, its completed is false and its createdAt
\* equals its updatedAt.
C22_CreatedTodoIsFresh ==
  (exchange.route = "POST_todos" /\ exchange.status = 201) =>
    /\ exchange.resp.id \notin DOMAIN exchange.before
    /\ exchange.resp.completed = FALSE
    /\ exchange.resp.createdAt = exchange.resp.updatedAt

\* ------------------------------------- claims about overlapping invocations
\* two updateTodo calls on the same id were in flight together and both have
\* returned successfully, `returned` first and `last` after it
overlappedUpdates ==
  /\ returned.op = "updateTodo" /\ returned.ok
  /\ last.op = "updateTodo" /\ last.ok
  /\ returned.arg.id = last.arg.id

\* C23: once two overlapping updateTodo calls on one id have both completed
\* successfully, the in-memory entry of that id is the record of the response
\* that resolved last, and the entries of other ids are as they were before
\* either response resolved.
C23_LastResolvedUpdateWins ==
  overlappedUpdates =>
    LET was == returned.before.todos
    IN  /\ Len(todos) = Len(was)
        /\ \A i \in positions(todos) :
             todos[i] = IF was[i].id = last.arg.id THEN last.value ELSE was[i]

\* the route handled the two updates in one order and their responses
\* resolved in the other: the list holds the record of the response that
\* resolved last, the durable store the other one
C23_Witness ==
  /\ overlappedUpdates
  /\ returned.value # last.value
  /\ \E i \in positions(todos) : todos[i] = last.value
  /\ \E i \in positions(todos) : todos[i].id # last.arg.id
  /\ db[last.arg.id] = returned.value

\* an async action of the store has issued its request and not yet returned
awaiting(s) == calls[s].pc # "idle"

\* C24: in every reachable state, also when two async store operations
\* overlap, loading is true whenever some operation is still awaiting its
\* persistence request.
C24_LoadingWhileAwaiting ==
  (\E s \in Slots : awaiting(s)) => loading

\* the invocation c was a delete of id that succeeded
deleteSucceeded(c, id) ==
  \/ c.op = "deleteTodo" /\ c.ok /\ c.arg.id = id
  \/ c.op = "deleteTodos" /\ c.ok /\ arrIncludes(c.arg.ids, id)

\* the invocation c was a loadTodos that resolved with a list without id
loadedWithout(c, id) ==
  c.op = "loadTodos" /\ c.ok /\ id \notin idsOf(c.value)

\* C26 as stated: a todo whose addTodo completed successfully is in the list
\* when the add returns and is still there after the next invocation returns,
\* unless that one was a successful delete of its id; also when that one is a
\* loadTodos whose fetch was issued before the add completed.
C26_AddedTodoStays ==
  /\ (last.op = "addTodo" /\ last.ok) => last.value.id \in idsOf(todos)
  /\ (returned.op = "addTodo" /\ returned.ok
        /\ ~deleteSucceeded(last, returned.value.id))
     => returned.value.id \in idsOf(todos)

\* C26, amended: the same unless the invocation that returns next is a
\* successful delete of its id or a loadTodos resolving with a list that was
\* read before the todo was stored.
C26_AddedTodoStaysUnlessStaleLoad ==
  /\ (last.op = "addTodo" /\ last.ok) => last.value.id \in idsOf(todos)
  /\ (returned.op = "addTodo" /\ returned.ok
        /\ ~deleteSucceeded(last, returned.value.id)
        /\ ~loadedWithout(last, returned.value.id))
     => returned.value.id \in idsOf(todos)

\* a loadTodos issued before the add completed resolved after it with a list
\* read after the todo was stored: the todo is still in the list
C26_Witness ==
  /\ returned.op = "addTodo"
  /\ returned.ok
  /\ last.op = "loadTodos"
  /\ last.ok
  /\ returned.value.id \in idsOf(todos)
  /\ Len(todos) > 1

\* ------------------------------------- claims about overlapping requests
\* the request x was a DELETE /todos/{id} answered with success
deletedOk(x, id) ==
  x.route = "DELETE_todos_id" /\ x.status = 200 /\ x.id = id

\* C25: once DELETE /todos/{id} has returned success and no POST follows,
\* the durable store holds no record with that id: not when the DELETE
\* returns and not after the request answered next, also when that request is
\* a PUT or PATCH of the id that read the record before the delete.
C25_DeletedStaysDeleted ==
  \A id \in Ids :
    /\ deletedOk(exchange, id) => id \notin DOMAIN db
    /\ (deletedOk(previous, id) /\ exchange.route # "POST_todos")
         => id \notin DOMAIN db

\* ------------------------------------------------ claims about the UI store
\* C27: after the Exit action of the bulk-action bar (clearSelection followed
\* by toggleBulkMode) has run from a state with isBulkMode true, isBulkMode is
\* false and selectedTodoIds is empty.
C27_ExitLeavesBulkMode ==
  (exchange.route = "handleExitBulkMode" /\ exchange.before.isBulkMode) =>
    /\ ~ui.isBulkMode
    /\ ui.selectedTodoIds = <<>>


\* the modal, drawer, menu and theme fields of the UI store
uiFrame(state) ==
  <<state.isAddTodoModalOpen, state.isEditTodoModalOpen, state.editingTodoId,
    state.isDeleteConfirmModalOpen, state.deletingTodoId,
    state.isFilterDrawerOpen, state.isMobileMenuOpen, state.theme>>

\* toggleTodoSelection(id) has just run twice in a row
toggledTwice ==
  /\ exchange.route = "toggleTodoSelection"
  /\ previous.route = "toggleTodoSelection"
  /\ previous.id = exchange.id

\* what C30 says of toggleBulkMode, of clearSelection and of the frame
bulkAndFrame ==
  /\ (exchange.route = "toggleBulkMode" /\ exchange.before.isBulkMode) =>
       ui.selectedTodoIds = <<>> /\ ~ui.isBulkMode
  /\ (exchange.route = "toggleBulkMode" /\ ~exchange.before.isBulkMode) =>
       ui.selectedTodoIds = exchange.before.selectedTodoIds /\ ui.isBulkMode
  /\ exchange.route = "clearSelection" =>
       ui.selectedTodoIds = <<>> /\ ~ui.isBulkMode
  /\ exchange.route \in {"toggleBulkMode", "clearSelection", "toggleTodoSelection"} =>
       uiFrame(ui) = uiFrame(exchange.before)

\* C30 as stated: toggleBulkMode from on to off empties selectedTodoIds, from
\* off to on leaves it unchanged, clearSelection empties it and sets isBulkMode
\* false, toggleTodoSelection(id) applied twice restores selectedTodoIds, and
\* none of these actions changes a modal, drawer or theme field.
C30_SelectionActions ==
  /\ bulkAndFrame
  /\ toggledTwice => ui.selectedTodoIds = previous.before.selectedTodoIds

\* C30, amended: as C30, except that toggleTodoSelection(id) applied twice
\* restores the set of selected ids, and the array itself when id was not
\* selected before or was its last element.
C30_SelectionActionsUpToOrder ==
  /\ bulkAndFrame
  /\ toggledTwice =>
       LET old == previous.before.selectedTodoIds
           now == ui.selectedTodoIds
       IN  /\ {now[i] : i \in 1..Len(now)} = {old[i] : i \in 1..Len(old)}
           /\ (~arrIncludes(old, exchange.id) \/ old[Len(old)] = exchange.id) =>
                ui.selectedTodoIds = old

\* a selected id that is not the last of the array has been toggled twice, in
\* a store whose modal, drawer and theme fields are not the initial ones
C30_Witness ==
  /\ toggledTwice
  /\ arrIncludes(previous.before.selectedTodoIds, exchange.id)
  /\ previous.before.selectedTodoIds[Len(previous.before.selectedTodoIds)] # exchange.id
  /\ uiFrame(ui) # uiFrame(uiInitial)


\* ------------------------------------------------ claims about the edit form
\* C28: when the edit form has been opened from the edit action of the card of
\* todo t and is submitted with a valid title, the store's updateTodo is called
\* with t's id and addTodo is not, so the list is no longer after the call.
C28_EditFormUpdates ==
  exchange.route = "handleSubmit" =>
    /\ calls[Main].pc # "idle" =>
         calls[Main].op = "updateTodo" /\ {calls[Main].arg.id} = exchange.id
    /\ last.op # "none" =>
         last.op = "updateTodo" /\ Len(todos) <= Len(last.entry)


\* ------------------------------------------- claims about the list route
\* the filter of the answered request has no tag with a comma in it
plainTags(f) ==
  \A tags \in f.tags : \A i \in 1..Len(tags) : ~strIncludes(tags[i], <<",">>)

\* the answer agrees with the store's getFilteredTodos under the same filter
sameAsStore(x) ==
  /\ x.value = getFilteredTodos([storeState EXCEPT !.filter = x.filter])
  /\ x.resp.total = Cardinality(DOMAIN db)
  /\ x.resp.filtered = Len(x.resp.todos)
  /\ x.resp.filtered <= x.resp.total

\* C29: for every stored collection and every filter, the todos returned by
\* GET /todos with that filter are the same sequence as the store's
\* getFilteredTodos over the same collection with the same filter, total is
\* the stored count and filtered is the length of todos.
C29_ListRouteMatchesStore ==
  (exchange.route = "GET_todos" /\ exchange.status = 200) => sameAsStore(exchange)

====
